---- MODULE Spec2Model ----
(***************************************************************************)
(* Model of the query path of the Google Drive question-answering chatbot  *)
(* (src/main.py, query_llm).  Python strings are sequences of one-character *)
(* strings, so that lower(), split(), slicing, substring tests and the      *)
(* capitalised-word regular expression are computed as the code computes    *)
(* them.  Documents are referred to by their index in Corpus.               *)
(***************************************************************************)
EXTENDS Integers, Sequences, FiniteSets, TLC

(***************************************************************************)
(* Python string primitives                                                *)
(***************************************************************************)
UpperCase ==
    <<"A","B","C","D","E","F","G","H","I","J","K","L","M",
      "N","O","P","Q","R","S","T","U","V","W","X","Y","Z">>

LowerCase ==
    <<"a","b","c","d","e","f","g","h","i","j","k","l","m",
      "n","o","p","q","r","s","t","u","v","w","x","y","z">>

DigitChars == {"0","1","2","3","4","5","6","7","8","9"}

IsUpper(c) == \E i \in 1..26 : UpperCase[i] = c

IsLower(c) == \E i \in 1..26 : LowerCase[i] = c

\* \w of Python's re module, on the ASCII characters the model uses
IsWordChar(c) == IsUpper(c) \/ IsLower(c) \/ c \in DigitChars \/ c = "_"

\* str.split() without argument splits on runs of whitespace
IsSpace(c) == c \in {" ", "\t", "\n"}

LowerChar(c) ==
    IF IsUpper(c) THEN LowerCase[CHOOSE i \in 1..26 : UpperCase[i] = c] ELSE c

\* str.lower()
Lower(s) == SubSeq([i \in 1..Len(s) |-> LowerChar(s[i])], 1, Len(s))

\* s[:n]
Take(s, n) == SubSeq(s, 1, IF Len(s) < n THEN Len(s) ELSE n)

\* sub in s
Contains(s, sub) ==
    \E i \in 0..(Len(s) - Len(sub)) : SubSeq(s, i + 1, i + Len(sub)) = sub

\* the end (exclusive index) of the run of non-space characters starting at i
RECURSIVE WordEnd(_, _)
WordEnd(s, i) ==
    IF i > Len(s) \/ IsSpace(s[i]) THEN i ELSE WordEnd(s, i + 1)

\* str.split(): the maximal runs of non-whitespace characters from position i on
RECURSIVE SplitFrom(_, _)
SplitFrom(s, i) ==
    IF i > Len(s) THEN <<>>
    ELSE IF IsSpace(s[i]) THEN SplitFrom(s, i + 1)
    ELSE <<SubSeq(s, i, WordEnd(s, i) - 1)>> \o SplitFrom(s, WordEnd(s, i))

Split(s) == SplitFrom(s, 1)

Range(f) == {f[i] : i \in DOMAIN f}

\* the end (exclusive index) of the run of lowercase letters starting at i
RECURSIVE LowerRunEnd(_, _)
LowerRunEnd(s, i) ==
    IF i > Len(s) \/ ~IsLower(s[i]) THEN i ELSE LowerRunEnd(s, i + 1)

\* re.findall(r'\b[A-Z][a-z]+\b', s): an uppercase letter at a word boundary,
\* one or more lowercase letters, then a word boundary.  When the greedy run of
\* lowercase letters ends before a word character no shorter run ends at a
\* boundary either, so there is no match at that start.
RECURSIVE FindNamesFrom(_, _)
FindNamesFrom(s, i) ==
    IF i > Len(s) THEN <<>>
    ELSE LET e == LowerRunEnd(s, i + 1)
             startsAtBoundary == (i = 1) \/ ~IsWordChar(s[i - 1])
             endsAtBoundary == (e > Len(s)) \/ ~IsWordChar(s[e])
         IN IF IsUpper(s[i]) /\ startsAtBoundary /\ e > i + 1 /\ endsAtBoundary
            THEN <<SubSeq(s, i, e - 1)>> \o FindNamesFrom(s, e)
            ELSE FindNamesFrom(s, i + 1)

FindNames(s) == FindNamesFrom(s, 1)

(***************************************************************************)
(* Strings of the model: queries, chunk texts, titles and identifiers      *)
(***************************************************************************)
\* "Tell me about Priya's experience"
QueryTell ==
    <<"T","e","l","l"," ","m","e"," ","a","b","o","u","t"," ","P","r","i","y",
      "a","'","s"," ","e","x","p","e","r","i","e","n","c","e">>

\* 'priya resume'
QueryLower ==
    <<"p","r","i","y","a"," ","r","e","s","u","m","e">>

\* 'tell me about'
QueryStop ==
    <<"t","e","l","l"," ","m","e"," ","a","b","o","u","t">>

\* 'who is ai'
QueryShort ==
    <<"w","h","o"," ","i","s"," ","a","i">>

\* 'Priya is a data engineer '
TextPriya ==
    <<"P","r","i","y","a"," ","i","s"," ","a"," ","d","a","t","a"," ","e","n",
      "g","i","n","e","e","r"," ">>

\* 'skills python and sql '
TextSkills ==
    <<"s","k","i","l","l","s"," ","p","y","t","h","o","n"," ","a","n","d"," ",
      "s","q","l"," ">>

\* 'I can tell you about ai '
TextTell ==
    <<"I"," ","c","a","n"," ","t","e","l","l"," ","y","o","u"," ","a","b","o",
      "u","t"," ","a","i"," ">>

\* 'notes for me '
TextNotes ==
    <<"n","o","t","e","s"," ","f","o","r"," ","m","e"," ">>

\* 'Arun is a chef '
TextArun ==
    <<"A","r","u","n"," ","i","s"," ","a"," ","c","h","e","f"," ">>

\* 'priya project log '
TextLog ==
    <<"p","r","i","y","a"," ","p","r","o","j","e","c","t"," ","l","o","g"," ">>

\* 'resume.pdf'
TitleResume ==
    <<"r","e","s","u","m","e",".","p","d","f">>

\* 'Priya notes'
TitleNotes ==
    <<"P","r","i","y","a"," ","n","o","t","e","s">>

\* 'f1'
FileOne ==
    <<"f","1">>

\* 'f2'
FileTwo ==
    <<"f","2">>

\* 'g1'
GenericOne ==
    <<"g","1">>

\* the stop list of the name extraction
StopList ==
    {<<"t","e","l","l">>,
     <<"m","e">>,
     <<"a","b","o","u","t">>,
     <<"w","h","a","t">>,
     <<"w","h","o">>,
     <<"w","h","e","r","e">>,
     <<"w","h","e","n">>,
     <<"h","o","w">>,
     <<"w","h","y">>}

\* 'priya is on leave '
TextLeave ==
    <<"p","r","i","y","a"," ","i","s"," ","o","n"," ","l","e","a","v","e"," ">>

\* 'priya builds data pipelines using python spark '
TextRich ==
    <<"p","r","i","y","a"," ","b","u","i","l","d","s"," ","d","a","t","a"," ",
      "p","i","p","e","l","i","n","e","s"," ","u","s","i","n","g"," ","p","y",
      "t","h","o","n"," ","s","p","a","r","k"," ">>

\* 'Priya is a data engineer'
AnswerShort ==
    <<"P","r","i","y","a"," ","i","s"," ","a"," ","d","a","t","a"," ","e","n",
      "g","i","n","e","e","r">>

\* exactly 100 characters
\* 'Priya builds DATA flows in python and spark as Resume.PDF says -------------------------------------'
AnswerLong ==
    <<"P","r","i","y","a"," ","b","u","i","l","d","s"," ","D","A","T","A"," ",
      "f","l","o","w","s"," ","i","n"," ","p","y","t","h","o","n"," ","a","n",
      "d"," ","s","p","a","r","k"," ","a","s"," ","R","e","s","u","m","e",".",
      "P","D","F"," ","s","a","y","s"," ","-","-","-","-","-","-","-","-","-",
      "-","-","-","-","-","-","-","-","-","-","-","-","-","-","-","-","-","-",
      "-","-","-","-","-","-","-","-","-","-">>

\* 'Error: Unable to retrieve any documents from the vector store.'
MsgRetrievalError ==
    <<"E","r","r","o","r",":"," ","U","n","a","b","l","e"," ","t","o"," ","r",
      "e","t","r","i","e","v","e"," ","a","n","y"," ","d","o","c","u","m","e",
      "n","t","s"," ","f","r","o","m"," ","t","h","e"," ","v","e","c","t","o",
      "r"," ","s","t","o","r","e",".">>

\* 'No documents found in the vector database. Please check if documents were properly loaded.'
MsgNoDocuments ==
    <<"N","o"," ","d","o","c","u","m","e","n","t","s"," ","f","o","u","n","d",
      " ","i","n"," ","t","h","e"," ","v","e","c","t","o","r"," ","d","a","t",
      "a","b","a","s","e","."," ","P","l","e","a","s","e"," ","c","h","e","c",
      "k"," ","i","f"," ","d","o","c","u","m","e","n","t","s"," ","w","e","r",
      "e"," ","p","r","o","p","e","r","l","y"," ","l","o","a","d","e","d",".">>

\* "No documents found containing information about '"
MsgNoNameHead ==
    <<"N","o"," ","d","o","c","u","m","e","n","t","s"," ","f","o","u","n","d",
      " ","c","o","n","t","a","i","n","i","n","g"," ","i","n","f","o","r","m",
      "a","t","i","o","n"," ","a","b","o","u","t"," ","'">>

\* "'. Please check if this person's documents are in your Google Drive."
MsgNoNameTail ==
    <<"'","."," ","P","l","e","a","s","e"," ","c","h","e","c","k"," ","i","f",
      " ","t","h","i","s"," ","p","e","r","s","o","n","'","s"," ","d","o","c",
      "u","m","e","n","t","s"," ","a","r","e"," ","i","n"," ","y","o","u","r",
      " ","G","o","o","g","l","e"," ","D","r","i","v","e",".">>

\* 'No relevant documents found for your question. Please check if the information exists in your documents.'
MsgNoRelevant ==
    <<"N","o"," ","r","e","l","e","v","a","n","t"," ","d","o","c","u","m","e",
      "n","t","s"," ","f","o","u","n","d"," ","f","o","r"," ","y","o","u","r",
      " ","q","u","e","s","t","i","o","n","."," ","P","l","e","a","s","e"," ",
      "c","h","e","c","k"," ","i","f"," ","t","h","e"," ","i","n","f","o","r",
      "m","a","t","i","o","n"," ","e","x","i","s","t","s"," ","i","n"," ","y",
      "o","u","r"," ","d","o","c","u","m","e","n","t","s",".">>

\* 'Error: '
ErrorPrefix ==
    <<"E","r","r","o","r",":"," ">>

\* 'Answer:\n'
AnswerHeader ==
    <<"A","n","s","w","e","r",":","\n">>

\* '\n\nSources Used:\n'
SourcesHeader ==
    <<"\n","\n","S","o","u","r","c","e","s"," ","U","s","e","d",":","\n">>

\* '\n\nWarning: Response may be based on file names rather than content. Detected file names: '
FileNameWarning ==
    <<"\n","\n","W","a","r","n","i","n","g",":"," ","R","e","s","p","o","n",
      "s","e"," ","m","a","y"," ","b","e"," ","b","a","s","e","d"," ","o","n",
      " ","f","i","l","e"," ","n","a","m","e","s"," ","r","a","t","h","e","r",
      " ","t","h","a","n"," ","c","o","n","t","e","n","t","."," ","D","e","t",
      "e","c","t","e","d"," ","f","i","l","e"," ","n","a","m","e","s",":"," ">>

\* '\n\nNote: This response may not be fully based on the actual document content. Please verify the information.'
FabricationNote ==
    <<"\n","\n","N","o","t","e",":"," ","T","h","i","s"," ","r","e","s","p",
      "o","n","s","e"," ","m","a","y"," ","n","o","t"," ","b","e"," ","f","u",
      "l","l","y"," ","b","a","s","e","d"," ","o","n"," ","t","h","e"," ","a",
      "c","t","u","a","l"," ","d","o","c","u","m","e","n","t"," ","c","o","n",
      "t","e","n","t","."," ","P","l","e","a","s","e"," ","v","e","r","i","f",
      "y"," ","t","h","e"," ","i","n","f","o","r","m","a","t","i","o","n",".">>

\* '\n\nNote: Response seems brief. This might indicate limited information in the documents or the model not using all available content.'
BrevityNote ==
    <<"\n","\n","N","o","t","e",":"," ","R","e","s","p","o","n","s","e"," ",
      "s","e","e","m","s"," ","b","r","i","e","f","."," ","T","h","i","s"," ",
      "m","i","g","h","t"," ","i","n","d","i","c","a","t","e"," ","l","i","m",
      "i","t","e","d"," ","i","n","f","o","r","m","a","t","i","o","n"," ","i",
      "n"," ","t","h","e"," ","d","o","c","u","m","e","n","t","s"," ","o","r",
      " ","t","h","e"," ","m","o","d","e","l"," ","n","o","t"," ","u","s","i",
      "n","g"," ","a","l","l"," ","a","v","a","i","l","a","b","l","e"," ","c",
      "o","n","t","e","n","t",".">>

\* '\n\nResponse Quality:\n'
QualityHeader ==
    <<"\n","\n","R","e","s","p","o","n","s","e"," ","Q","u","a","l","i","t",
      "y",":","\n">>

\* 'bullet Relevance: '
RelevanceLabel ==
    <<"bullet"," ","R","e","l","e","v","a","n","c","e",":"," ">>

\* 'bullet Completeness: '
CompletenessLabel ==
    <<"bullet"," ","C","o","m","p","l","e","t","e","n","e","s","s",":"," ">>

\* 'bullet Overall Score: '
OverallLabel ==
    <<"bullet"," ","O","v","e","r","a","l","l"," ","S","c","o","r","e",":"," ">>

\* '/5'
OutOfFive ==
    <<"/","5">>

\* 'N/A'
NotAvailable ==
    <<"N","/","A">>

\* '\n\nEvaluation failed'
EvaluationFailedNote ==
    <<"\n","\n","E","v","a","l","u","a","t","i","o","n"," ","f","a","i","l",
      "e","d">>

\* 'Unknown Document'
UnknownDocument ==
    <<"U","n","k","n","o","w","n"," ","D","o","c","u","m","e","n","t">>

\* 'Unknown Source'
UnknownSource ==
    <<"U","n","k","n","o","w","n"," ","S","o","u","r","c","e">>

\* '   Source: '
SourceLabel ==
    <<" "," "," ","S","o","u","r","c","e",":"," ">>

\* 'None'
NoneText ==
    <<"N","o","n","e">>

\* "'NoneType' object has no attribute 'lower'"
NoneTypeLower ==
    <<"'","N","o","n","e","T","y","p","e","'"," ","o","b","j","e","c","t"," ",
      "h","a","s"," ","n","o"," ","a","t","t","r","i","b","u","t","e"," ","'",
      "l","o","w","e","r","'">>

\* 'Overloaded'
OverloadedError ==
    <<"O","v","e","r","l","o","a","d","e","d">>

\* the common words the auditor leaves out of the context words
CommonWords ==
    {<<"a","b","o","u","t">>,
     <<"a","f","t","e","r">>,
     <<"a","g","a","i","n">>,
     <<"a","l","o","n","g">>,
     <<"a","l","s","o">>,
     <<"a","l","w","a","y","s">>,
     <<"a","n","d">>,
     <<"a","n","o","t","h","e","r">>,
     <<"a","n","y","b","o","d","y">>,
     <<"a","n","y","o","n","e">>,
     <<"a","n","y","t","h","i","n","g">>,
     <<"a","r","o","u","n","d">>,
     <<"b","a","c","k">>,
     <<"b","e","c","o","m","e">>,
     <<"b","e","e","n">>,
     <<"b","e","f","o","r","e">>,
     <<"c","o","u","l","d">>,
     <<"d","u","r","i","n","g">>,
     <<"e","a","c","h">>,
     <<"e","v","e","n">>,
     <<"e","v","e","r","y","b","o","d","y">>,
     <<"e","v","e","r","y","o","n","e">>,
     <<"e","v","e","r","y","t","h","i","n","g">>,
     <<"f","a","m","i","l","y">>,
     <<"f","i","r","s","t">>,
     <<"f","o","r">>,
     <<"f","r","o","m">>,
     <<"g","o","o","d">>,
     <<"h","a","v","e">>,
     <<"h","e","r","e">>,
     <<"h","o","w","e","v","e","r">>,
     <<"i","m","p","o","r","t","a","n","t">>,
     <<"i","n","t","o">>,
     <<"j","u","s","t">>,
     <<"k","n","o","w">>,
     <<"l","a","s","t">>,
     <<"l","e","f","t">>,
     <<"l","i","f","e">>,
     <<"m","a","k","e">>,
     <<"m","a","n","y">>,
     <<"m","i","g","h","t">>,
     <<"m","o","r","e">>,
     <<"m","o","s","t">>,
     <<"m","u","c","h">>,
     <<"n","e","v","e","r">>,
     <<"n","o","b","o","d","y">>,
     <<"n","o","t","h","i","n","g">>,
     <<"o","f","t","e","n">>,
     <<"o","n","l","y">>,
     <<"o","t","h","e","r">>,
     <<"o","v","e","r">>,
     <<"p","l","a","c","e">>,
     <<"r","i","g","h","t">>,
     <<"s","a","i","d">>,
     <<"s","a","m","e">>,
     <<"s","e","e","m">>,
     <<"s","h","o","u","l","d">>,
     <<"s","o","m","e">>,
     <<"s","o","m","e","o","n","e">>,
     <<"s","o","m","e","t","h","i","n","g">>,
     <<"s","o","m","e","t","i","m","e","s">>,
     <<"s","t","i","l","l">>,
     <<"t","a","k","e">>,
     <<"t","h","a","n">>,
     <<"t","h","a","t">>,
     <<"t","h","e">>,
     <<"t","h","e","i","r">>,
     <<"t","h","e","m">>,
     <<"t","h","e","n">>,
     <<"t","h","e","r","e">>,
     <<"t","h","e","s","e">>,
     <<"t","h","e","y">>,
     <<"t","h","i","n","k">>,
     <<"t","h","i","s">>,
     <<"t","h","o","s","e">>,
     <<"t","h","r","o","u","g","h">>,
     <<"t","i","m","e">>,
     <<"t","o","g","e","t","h","e","r">>,
     <<"u","n","d","e","r">>,
     <<"v","e","r","y">>,
     <<"w","e","r","e">>,
     <<"w","h","a","t">>,
     <<"w","h","i","c","h">>,
     <<"w","h","i","l","e">>,
     <<"w","i","l","l">>,
     <<"w","i","t","h">>,
     <<"w","o","r","k">>,
     <<"w","o","r","l","d">>,
     <<"w","o","u","l","d">>,
     <<"y","e","a","r","s">>}

\* 'relevance_score'
KeyRelevance ==
    <<"r","e","l","e","v","a","n","c","e","_","s","c","o","r","e">>

\* 'completeness_score'
KeyCompleteness ==
    <<"c","o","m","p","l","e","t","e","n","e","s","s","_","s","c","o","r","e">>

\* 'source_relevance_score'
KeySourceRelevance ==
    <<"s","o","u","r","c","e","_","r","e","l","e","v","a","n","c","e","_","s",
      "c","o","r","e">>

\* 'overall_score'
KeyOverall ==
    <<"o","v","e","r","a","l","l","_","s","c","o","r","e">>

\* 'timestamp'
KeyTimestamp ==
    <<"t","i","m","e","s","t","a","m","p">>

\* 'query'
KeyQuery ==
    <<"q","u","e","r","y">>

\* 'answer_length'
KeyAnswerLength ==
    <<"a","n","s","w","e","r","_","l","e","n","g","t","h">>

\* 'error'
KeyError ==
    <<"e","r","r","o","r">>

\* 'string index out of range'
IndexErrorText ==
    <<"s","t","r","i","n","g"," ","i","n","d","e","x"," ","o","u","t"," ","o",
      "f"," ","r","a","n","g","e">>

\* "invalid literal for int() with base 10: '"
InvalidLiteralHead ==
    <<"i","n","v","a","l","i","d"," ","l","i","t","e","r","a","l"," ","f","o",
      "r"," ","i","n","t","(",")"," ","w","i","t","h"," ","b","a","s","e"," ",
      "1","0",":"," ","'">>

\* 'apple banana'
QueryFruit ==
    <<"a","p","p","l","e"," ","b","a","n","a","n","a">>

\* 'I like apple and banana'
AnswerFruit ==
    <<"I"," ","l","i","k","e"," ","a","p","p","l","e"," ","a","n","d"," ","b",
      "a","n","a","n","a">>

\* 'She said "ok"\n\\o/'
AnswerQuoted ==
    <<"S","h","e"," ","s","a","i","d"," ","\"","o","k","\"","\n","\\","o","/">>

\* 'evaluation_results_'
ResultsPrefix ==
    <<"e","v","a","l","u","a","t","i","o","n","_","r","e","s","u","l","t","s",
      "_">>

\* '.json'
JsonSuffix ==
    <<".","j","s","o","n">>

\* 'run.json'
FileRun ==
    <<"r","u","n",".","j","s","o","n">>

\* 'null'
NullText ==
    <<"n","u","l","l">>

\* 'test_suite_results'
KeyTestSuiteResults ==
    <<"t","e","s","t","_","s","u","i","t","e","_","r","e","s","u","l","t","s">>

\* 'overall_stats'
KeyOverallStats ==
    <<"o","v","e","r","a","l","l","_","s","t","a","t","s">>

\* 'evaluation'
KeyEvaluation ==
    <<"e","v","a","l","u","a","t","i","o","n">>

\* the value None of a metadata entry
None == <<"None">>

\* pads a text with dots to n characters
Pad(s, n) == s \o [i \in 1..(n - Len(s)) |-> "."]

(***************************************************************************)
(* The document chunks the vector store can return                         *)
(***************************************************************************)
\* page_content[:100] is the last resort of the deduplication key
DocIdPrefixLen == 100

SourceDrive == <<"d","r","i","v","e">>

\* A chunk is a langchain Document: page_content and a metadata mapping in
\* which any key may be missing.  Chunks 1 and 2 are two chunks of one Drive
\* file, the second short and carrying a generic id too; 3 carries only a
\* generic id; 4 has neither id and names the person in its title only; 5 and
\* 6 have no id and share their first 100 characters; 7 is another file; the
\* title of 8 is None; 9 has five and more meaningful words and a title.
Corpus ==
    << [page_content |-> Pad(TextPriya, 60),
        metadata |-> [source |-> SourceDrive, title |-> TitleResume, file_id |-> FileOne]],
       [page_content |-> Pad(TextSkills, 25),
        metadata |-> [source |-> SourceDrive, title |-> TitleResume, file_id |-> FileOne,
                      id |-> GenericOne]],
       [page_content |-> Pad(TextTell, 60),
        metadata |-> [source |-> SourceDrive, id |-> GenericOne]],
       [page_content |-> Pad(TextNotes, 60),
        metadata |-> [source |-> SourceDrive, title |-> TitleNotes]],
       [page_content |-> Pad(TextLog, 100) \o <<"x">>,
        metadata |-> [source |-> SourceDrive]],
       [page_content |-> Pad(TextLog, 100) \o <<"y">>,
        metadata |-> [source |-> SourceDrive]],
       [page_content |-> Pad(TextArun, 60),
        metadata |-> [source |-> SourceDrive, file_id |-> FileTwo]],
       [page_content |-> Pad(TextLeave, 60),
        metadata |-> [source |-> SourceDrive, title |-> None]],
       [page_content |-> Pad(TextRich, 60),
        metadata |-> [source |-> SourceDrive, title |-> TitleResume]] >>

\* how many chunks of Corpus the store of the retrieval checks holds
StoreSize == 6

DocIds == 1..StoreSize

\* what one search of a store can return: nothing, or one chunk
SearchResults(store) == {<<>>} \cup {<<d>> : d \in store}

Queries == {QueryTell, QueryLower, QueryStop, QueryShort}

MaxContextLengths == {100, 45}

(***************************************************************************)
(* The pure steps of query_llm                                             *)
(***************************************************************************)
\* dict.get(key, default)
MetaGet(md, key, default) == IF key \in DOMAIN md THEN md[key] ELSE default

PageContent(d) == Corpus[d].page_content

Metadata(d) == Corpus[d].metadata

\* the default of parameter retrieval_count
RetrievalCount == 8

\* max(retrieval_count * 2, 12)
EnhancedRetrievalCount ==
    IF RetrievalCount * 2 > 12 THEN RetrievalCount * 2 ELSE 12

\* search_kwargs k of the broad search
BroadK == 20

\* search_kwargs k of the basic fallback search
BasicK == 20

\* DocId keyed on the text alone
DocIdByContent(d) == Take(PageContent(d), DocIdPrefixLen)

\* doc.metadata.get('file_id', doc.metadata.get('id', doc.page_content[:100]))
DocId(d) ==
    MetaGet(Metadata(d), "file_id",
            MetaGet(Metadata(d), "id", Take(PageContent(d), DocIdPrefixLen)))

\* set(query.lower().split())
QueryWords(q) == Range(Split(Lower(q)))

\* [word for word in words if len(word) > 3 and word not in [stop list]]
RECURSIVE CandidateWordsFrom(_, _)
CandidateWordsFrom(words, i) ==
    IF i > Len(words) THEN <<>>
    ELSE (IF Len(words[i]) > 3 /\ words[i] \notin StopList THEN <<words[i]>> ELSE <<>>)
         \o CandidateWordsFrom(words, i + 1)

\* lowercase_words
LowercaseWords(q) == CandidateWordsFrom(Split(Lower(q)), 1)

\* re.findall(r'\b[A-Z][a-z]+\b', query) extended by lowercase_words
PotentialNames(q) == FindNames(q) \o LowercaseWords(q)

\* potential_names[0].lower()
PrimaryName(q) == Lower(PotentialNames(q)[1])

\* MentionsName looking at the text alone
MentionsNameInContent(d, primary_name) ==
    Contains(Lower(PageContent(d)), primary_name)

\* name_in_content or name_in_title
MentionsName(d, primary_name) ==
    \/ Contains(Lower(PageContent(d)), primary_name)
    \/ Contains(Lower(MetaGet(Metadata(d), "title", <<>>)), primary_name)

\* len(query_words.intersection(doc_words)) > 0
SharesWord(d, query_words) ==
    (query_words \cap Range(Split(Lower(PageContent(d))))) # {}

\* The values above depend on the chunk and the query only; they are tabulated
\* once over the corpus and the queries.
RECURSIVE TabulateOver(_, _)
TabulateOver(S, f) ==
    IF S = {} THEN <<>>
    ELSE LET x == CHOOSE y \in S : TRUE
         IN (x :> f[x]) @@ TabulateOver(S \ {x}, f)

Tabulate(f) == TabulateOver(DOMAIN f, f)

CorpusIds == DOMAIN Corpus

DocIdOf == Tabulate([d \in CorpusIds |-> DocId(d)])

DocLength == Tabulate([d \in CorpusIds |-> Len(PageContent(d))])

PotentialNamesOf == Tabulate([q \in Queries |-> PotentialNames(q)])

PrimaryNameOf ==
    Tabulate([q \in Queries |-> IF PotentialNames(q) # <<>> THEN PrimaryName(q) ELSE <<>>])

NameInDoc ==
    Tabulate([qd \in Queries \X CorpusIds |->
                 /\ PotentialNames(qd[1]) # <<>>
                 /\ MentionsName(qd[2], PrimaryName(qd[1]))])

WordInDoc ==
    Tabulate([qd \in Queries \X CorpusIds |-> SharesWord(qd[2], QueryWords(qd[1]))])

\* the deduplication loop from position i on, seen_ids being the keys added so far
RECURSIVE UniqueFrom(_, _, _)
UniqueFrom(docs, i, seen_ids) ==
    IF i > Len(docs) THEN <<>>
    ELSE IF DocIdOf[docs[i]] \notin seen_ids
         THEN <<docs[i]>> \o UniqueFrom(docs, i + 1, seen_ids \cup {DocIdOf[docs[i]]})
         ELSE UniqueFrom(docs, i + 1, seen_ids)

UniqueDocs(docs) == UniqueFrom(docs, 1, {})

\* LimitFrom with continue in place of break
RECURSIVE LimitFromSkipping(_, _, _, _)
LimitFromSkipping(docs, i, total, limit) ==
    IF i > Len(docs) THEN [docs |-> <<>>, total_chars |-> total]
    ELSE LET doc_length == DocLength[docs[i]]
         IN IF total + doc_length <= limit
            THEN LET rest == LimitFromSkipping(docs, i + 1, total + doc_length, limit)
                 IN [docs |-> <<docs[i]>> \o rest.docs, total_chars |-> rest.total_chars]
            ELSE LimitFromSkipping(docs, i + 1, total, limit)

\* the budget loop from position i on: a chunk is appended while the running
\* total stays within the limit, and the loop breaks at the first that does not
RECURSIVE LimitFrom(_, _, _, _)
LimitFrom(docs, i, total, limit) ==
    IF i > Len(docs) THEN [docs |-> <<>>, total_chars |-> total]
    ELSE LET doc_length == DocLength[docs[i]]
         IN IF total + doc_length <= limit
            THEN LET rest == LimitFrom(docs, i + 1, total + doc_length, limit)
                 IN [docs |-> <<docs[i]>> \o rest.docs, total_chars |-> rest.total_chars]
            ELSE [docs |-> <<>>, total_chars |-> total]

\* LimitDocs without the doubling of max_context_length
LimitDocsUndoubled(docs, mcl) == LimitFrom(docs, 1, 0, mcl)

\* final_docs_limited and total_chars for max_context_length mcl
LimitDocs(docs, mcl) == LimitFrom(docs, 1, 0, mcl * 2)

\* relevant_docs of the strict name filter
RECURSIVE NameFilterFrom(_, _, _)
NameFilterFrom(docs, i, q) ==
    IF i > Len(docs) THEN <<>>
    ELSE (IF NameInDoc[<<q, docs[i]>>] THEN <<docs[i]>> ELSE <<>>)
         \o NameFilterFrom(docs, i + 1, q)

\* relevant_docs of the word-overlap fallback
RECURSIVE OverlapFilterFrom(_, _, _)
OverlapFilterFrom(docs, i, q) ==
    IF i > Len(docs) THEN <<>>
    ELSE (IF WordInDoc[<<q, docs[i]>>] THEN <<docs[i]>> ELSE <<>>)
         \o OverlapFilterFrom(docs, i + 1, q)

\* relevant_docs as lines 605-654 compute it from the budgeted final_docs
RelevantDocs(docs, q) ==
    IF PotentialNamesOf[q] # <<>>
    THEN NameFilterFrom(docs, 1, q)
    ELSE OverlapFilterFrom(docs, 1, q)

(***************************************************************************)
(* The generator and the answer auditor of query_llm                       *)
(***************************************************************************)
\* str(v), as an f-string formats v
Str(v) == IF v = None THEN NoneText ELSE v

Digits == <<"0","1","2","3","4","5","6","7","8","9">>

\* str(n) of a natural number
RECURSIVE IntStr(_)
IntStr(n) ==
    IF n < 10 THEN <<Digits[n + 1]>>
    ELSE IntStr(n \div 10) \o <<Digits[(n % 10) + 1]>>

\* sep.join(parts)
RECURSIVE Join(_, _)
Join(parts, sep) ==
    IF parts = <<>> THEN <<>>
    ELSE IF Len(parts) = 1 THEN parts[1]
    ELSE parts[1] \o sep \o Join(Tail(parts), sep)

\* what the LLM may answer: a short text, and one of exactly 100 characters
\* that names a file in another case
Answers == {AnswerShort, AnswerLong}

\* str(e) of a failed qa.invoke
LLMFailures == {OverloadedError}

\* doc.metadata.get('title', default)
Title(d, default) == MetaGet(Metadata(d), "title", default)

TitleIsNone == Tabulate([d \in CorpusIds |-> Title(d, <<>>) = None])

\* the source_details loop: one numbered entry per distinct title|source; the
\* chunk texts of the model hold no link
RECURSIVE SourceDetailsFrom(_, _, _)
SourceDetailsFrom(docs, i, seen_sources) ==
    IF i > Len(docs) THEN <<>>
    ELSE LET doc_title == Str(Title(docs[i], UnknownDocument))
             doc_source == Str(MetaGet(Metadata(docs[i]), "source", UnknownSource))
             source_id == doc_title \o <<"|">> \o doc_source
         IN IF source_id \in seen_sources
            THEN SourceDetailsFrom(docs, i + 1, seen_sources)
            ELSE << IntStr(i) \o <<".", " ">> \o doc_title,
                    SourceLabel \o doc_source,
                    <<>> >>
                 \o SourceDetailsFrom(docs, i + 1, seen_sources \cup {source_id})

Sources(docs) == Join(SourceDetailsFrom(docs, 1, {}), <<"\n">>)

\* doc.metadata.get('title', '').lower() of the chunks whose title is a string
TitleLowerOf ==
    Tabulate([d \in CorpusIds |->
                 IF TitleIsNone[d] THEN <<>> ELSE Lower(Title(d, <<>>))])

LowerOf == Tabulate([a \in Answers |-> Lower(a)])

\* if doc_title and doc_title in response_text.lower()
TitleInResponse(d, response_text) ==
    /\ TitleLowerOf[d] # <<>>
    /\ Contains(LowerOf[response_text], TitleLowerOf[d])

TitleInAnswer ==
    Tabulate([da \in CorpusIds \X Answers |-> TitleInResponse(da[1], da[2])])

\* the file_names_in_response loop
RECURSIVE FileNamesFrom(_, _, _)
FileNamesFrom(docs, i, response_text) ==
    IF i > Len(docs) THEN <<>>
    ELSE (IF TitleInAnswer[<<docs[i], response_text>>]
          THEN <<TitleLowerOf[docs[i]]>> ELSE <<>>)
         \o FileNamesFrom(docs, i + 1, response_text)

\* a word counts when it has more than this many characters
MinWordLength == 3

\* content_words[:100]
ContextWordLimit == 100

\* [word.lower() for word in words if len(word) > 3 and word.lower() not in [...]]
RECURSIVE MeaningfulFrom(_, _)
MeaningfulFrom(words, i) ==
    IF i > Len(words) THEN <<>>
    ELSE (IF Len(words[i]) > MinWordLength /\ Lower(words[i]) \notin CommonWords
          THEN <<Lower(words[i])>> ELSE <<>>)
         \o MeaningfulFrom(words, i + 1)

ContentWords(d) ==
    Range(Take(MeaningfulFrom(Split(PageContent(d)), 1), ContextWordLimit))

ContentWordsOf == Tabulate([d \in CorpusIds |-> ContentWords(d)])

\* set(response_text.lower().split())
ResponseWordsOf == Tabulate([a \in Answers |-> Range(Split(Lower(a)))])

\* context_words after the loop over final_docs
ContextWords(docs) == UNION {ContentWordsOf[docs[i]] : i \in DOMAIN docs}

Overlap(docs, response_text) ==
    Cardinality(ContextWords(docs) \cap ResponseWordsOf[response_text])

\* the least overlap that raises no doubt
MinOverlap == 5

\* if overlap < 5
FewContextWords(docs, response_text) == Overlap(docs, response_text) < MinOverlap

\* the length below which an answer is taken for brief
BriefLength == 100

\* IsBrief that takes an answer of exactly 100 characters for brief too
IsBriefInclusive(response_text) == Len(response_text) <= BriefLength

\* if len(response_text) < 100
IsBrief(response_text) == Len(response_text) < BriefLength

\* context_validation as the auditor builds it, for chunks whose titles are
\* strings or absent
ContextValidation(docs, response_text) ==
    LET file_names_in_response == FileNamesFrom(docs, 1, response_text)
    IN (IF file_names_in_response # <<>>
        THEN FileNameWarning \o Join(file_names_in_response, <<",", " ">>)
        ELSE <<>>)
       \o (IF FewContextWords(docs, response_text) THEN FabricationNote ELSE <<>>)
       \o (IF IsBrief(response_text) THEN BrevityNote ELSE <<>>)

\* None.lower() raises in the file name check
AuditRaises(docs) == \E i \in DOMAIN docs : TitleIsNone[docs[i]]

\* f"Answer:\n{response_text}{context_validation}\n\nSources Used:\n{sources}"
Compose(response_text, context_validation, sources) ==
    AnswerHeader \o response_text \o context_validation \o SourcesHeader \o sources

(***************************************************************************)
(* evaluator.py: evaluate_qa_response                                      *)
(***************************************************************************)
\* A Python value that json can write is a record with one field named after
\* its type: int, float (in hundredths), str, null, list, or dict (a sequence
\* of <<key, value>> pairs in insertion order).
IntV(n) == [int |-> n]

FloatV(hundredths) == [float |-> hundredths]

StrV(s) == [str |-> s]

NullV == [null |-> TRUE]

ListV(items) == [list |-> items]

DictV(pairs) == [dict |-> pairs]

\* d.get(key, default) of a dict given by its pairs
DictGet(pairs, key, default) ==
    LET at == {i \in DOMAIN pairs : pairs[i][1] = key}
    IN IF at = {} THEN default ELSE pairs[CHOOSE i \in at : TRUE][2]

HasKey(pairs, key) == \E i \in DOMAIN pairs : pairs[i][1] = key

\* datetime.now().isoformat(), the time counted in whole seconds
IsoFormat(t) == <<"T">> \o IntStr(t)

\* what the rating LLM may return as content: a score with white space
\* around it, a digit above 5, a letter, nothing
RatingTexts == {<<" ", "5", "\n">>, <<"7">>, <<"x">>, <<>>}

\* llm.invoke(prompt) raises, or returns a message with this content
RatingReplies ==
    {[raises |-> TRUE, text |-> OverloadedError]}
        \cup {[raises |-> FALSE, text |-> c] : c \in RatingTexts}

RECURSIVE LStrip(_)
LStrip(s) == IF s # <<>> /\ IsSpace(s[1]) THEN LStrip(Tail(s)) ELSE s

RECURSIVE RStrip(_)
RStrip(s) ==
    IF s # <<>> /\ IsSpace(s[Len(s)]) THEN RStrip(SubSeq(s, 1, Len(s) - 1)) ELSE s

\* str.strip()
Strip(s) == RStrip(LStrip(s))

DigitValue(c) == CHOOSE n \in 0..9 : Digits[n + 1] = c

\* int(str(response.content).strip()[0]): the score, or str(e) of the
\* IndexError or ValueError raised
ParseScore(content) ==
    LET s == Strip(content)
    IN IF s = <<>>
       THEN [ok |-> FALSE, score |-> 0, error |-> IndexErrorText]
       ELSE IF s[1] \in DigitChars
       THEN [ok |-> TRUE, score |-> DigitValue(s[1]), error |-> <<>>]
       ELSE [ok |-> FALSE, score |-> 0,
             error |-> InvalidLiteralHead \o <<s[1], "'">>]

\* one rating: llm.invoke and the parse of its content
Rate(reply) ==
    IF reply.raises THEN [ok |-> FALSE, score |-> 0, error |-> reply.text]
    ELSE ParseScore(reply.text)

\* the mapping returned from the except branch
ErrorResult(cause, t) ==
    << <<KeyError, StrV(cause)>>, <<KeyTimestamp, StrV(IsoFormat(t))>> >>

\* the mapping returned with the scores; source_documents is None, so
\* overall_score is round((relevance + completeness) / 2, 2)
ScoreResult(q, answer, relevance_score, completeness_score, t) ==
    << <<KeyRelevance, IntV(relevance_score)>>,
       <<KeyCompleteness, IntV(completeness_score)>>,
       <<KeySourceRelevance, NullV>>,
       <<KeyOverall, FloatV(((relevance_score + completeness_score) * 100) \div 2)>>,
       <<KeyTimestamp, StrV(IsoFormat(t))>>,
       <<KeyQuery, StrV(q)>>,
       <<KeyAnswerLength, IntV(Len(answer))>> >>

\* EvaluateQAResponse without its try/except: a failed rating leaves as an
\* exception
EvaluateQAResponsePropagating(q, answer, replies, t) ==
    LET relevance == Rate(replies[1])
        completeness == Rate(replies[2])
    IN IF ~relevance.ok
       THEN [raised |-> TRUE, evaluation |-> <<>>, calls |-> 1]
       ELSE IF ~completeness.ok
       THEN [raised |-> TRUE, evaluation |-> <<>>, calls |-> 2]
       ELSE [raised |-> FALSE, calls |-> 2,
             evaluation |-> ScoreResult(q, answer, relevance.score,
                                        completeness.score, t)]

\* evaluate_qa_response(query, answer) given the replies of the rating LLM:
\* what it returns, and how many times it invoked the LLM
EvaluateQAResponse(q, answer, replies, t) ==
    LET relevance == Rate(replies[1])
        completeness == Rate(replies[2])
    IN IF ~relevance.ok
       THEN [raised |-> FALSE, evaluation |-> ErrorResult(relevance.error, t),
             calls |-> 1]
       ELSE IF ~completeness.ok
       THEN [raised |-> FALSE, evaluation |-> ErrorResult(completeness.error, t),
             calls |-> 2]
       ELSE [raised |-> FALSE, calls |-> 2,
             evaluation |-> ScoreResult(q, answer, relevance.score,
                                        completeness.score, t)]

\* repr of a float with at most two decimals, given in hundredths
FloatStr(h) ==
    IntStr(h \div 100) \o <<".">>
        \o (IF h % 10 = 0 THEN <<Digits[((h % 100) \div 10) + 1]>>
            ELSE <<Digits[((h % 100) \div 10) + 1], Digits[(h % 10) + 1]>>)

\* how an f-string formats a value
Format(v) ==
    IF "int" \in DOMAIN v THEN IntStr(v.int)
    ELSE IF "float" \in DOMAIN v THEN FloatStr(v.float)
    ELSE IF "str" \in DOMAIN v THEN v.str
    ELSE NoneText

\* eval_info
EvalInfo(evaluation) ==
    QualityHeader
        \o RelevanceLabel
        \o Format(DictGet(evaluation, KeyRelevance, StrV(NotAvailable)))
        \o OutOfFive \o <<"\n">>
        \o CompletenessLabel
        \o Format(DictGet(evaluation, KeyCompleteness, StrV(NotAvailable)))
        \o OutOfFive \o <<"\n">>
        \o OverallLabel
        \o Format(DictGet(evaluation, KeyOverall, StrV(NotAvailable)))
        \o OutOfFive

(***************************************************************************)
(* query_llm and query_llm_stream as a state machine: one call, from the   *)
(* first search to the returned string or the last yield                   *)
(***************************************************************************)
VARIABLES
    pc,                  \* the statement the call is at
    vectorstore,         \* parameter vectorstore: the chunks the store holds
    query,               \* parameter query
    max_context_length,  \* parameter max_context_length
    streaming,           \* TRUE in query_llm_stream, FALSE in query_llm
    llm_answers,         \* the texts the answering LLM may return in this call
    rating_replies,      \* the replies the rating LLM may give in this call
    calls,               \* the searches issued so far, in order, with their outcome
    all_docs,
    unique_docs,
    final_docs,
    final_docs_limited,
    total_chars,
    relevant_docs,
    llm_calls,           \* number of qa.invoke calls made
    eval_calls,          \* number of evaluate_qa_response calls made
    response_text,       \* result['result']; parameter answer of evaluate_qa_response
    context_validation,
    evaluation,          \* what evaluate_qa_response returned
    ratings,             \* the replies of the rating LLM, in order
    response,            \* the string built, returned or streamed
    yield_count,         \* number of yields of query_llm_stream so far
    last_yield,          \* the string of its latest yield
    result,              \* how the call ended; kind "none" while it runs
    files,               \* the JSON files written, by name
    saved,               \* the save_evaluation_results calls made, in order
    now,                 \* the clock, in seconds
    handler,             \* the function the chat is wired to
    sessions,            \* web_app.sessions: user id to its vectorstore handle
    user_state,          \* web_app.user_state
    index_files,         \* the user ids with a FAISS index on disk
    loads,               \* number of vector indexes loaded or built so far
    chat_history,        \* chat_state of each conversation
    last_user_msg,       \* last_user_msg of each conversation
    turn                 \* where the handler of each conversation's turn is

retrievalVars ==
    <<calls, all_docs, unique_docs, final_docs, final_docs_limited, total_chars,
      relevant_docs>>

paramVars ==
    <<vectorstore, query, max_context_length, streaming, llm_answers,
      rating_replies>>

answerVars == <<llm_calls, response_text, context_validation>>

evalVars == <<eval_calls, evaluation, ratings>>

outVars == <<response, yield_count, last_yield>>

saveVars == <<files, saved, now>>

webVars ==
    <<handler, sessions, user_state, index_files, loads, chat_history, last_user_msg, turn>>

\* the variables of query_llm, of the evaluator and of the evaluation log
callVars ==
    <<pc, result, retrievalVars, paramVars, answerVars, evalVars, outVars,
      saveVars>>

vars ==
    <<pc, vectorstore, query, max_context_length, streaming, llm_answers,
      rating_replies, calls, all_docs,
      unique_docs, final_docs, final_docs_limited, total_chars, relevant_docs,
      llm_calls, eval_calls, response_text, context_validation, evaluation,
      ratings, response, yield_count, last_yield, result, files, saved, now,
      handler, sessions, user_state, index_files, loads, chat_history,
      last_user_msg, turn>>

\* the rating LLM raises or returns a 5
GoodOrRaise ==
    {[raises |-> TRUE, text |-> OverloadedError],
     [raises |-> FALSE, text |-> <<" ", "5", "\n">>]}

NoResult == [kind |-> "none", name |-> <<>>]

(***************************************************************************)
(* web_app.py: the strings of the chat                                     *)
(***************************************************************************)
\* 'Please enter your email ID to start:'
InitialText ==
    <<"P","l","e","a","s","e"," ","e","n","t","e","r"," ","y","o","u","r"," ",
      "e","m","a","i","l"," ","I","D"," ","t","o"," ","s","t","a","r","t",":">>

\* 'Processing your request...'
ProcessingText ==
    <<"P","r","o","c","e","s","s","i","n","g"," ","y","o","u","r"," ","r","e",
      "q","u","e","s","t",".",".",".">>

\* '...'
EllipsisText ==
    <<".",".",".">>

\* 'Checking authentication for '
CheckingHead ==
    <<"C","h","e","c","k","i","n","g"," ","a","u","t","h","e","n","t","i","c",
      "a","t","i","o","n"," ","f","o","r"," ">>

\* 'Token found for '
TokenFoundHead ==
    <<"T","o","k","e","n"," ","f","o","u","n","d"," ","f","o","r"," ">>

\* '. Loading existing session...'
TokenFoundTail ==
    <<"."," ","L","o","a","d","i","n","g"," ","e","x","i","s","t","i","n","g",
      " ","s","e","s","s","i","o","n",".",".",".">>

\* 'Session loaded successfully for '
SessionLoadedHead ==
    <<"S","e","s","s","i","o","n"," ","l","o","a","d","e","d"," ","s","u","c",
      "c","e","s","s","f","u","l","l","y"," ","f","o","r"," ">>

\* 'First time login for '
FirstTimeHead ==
    <<"F","i","r","s","t"," ","t","i","m","e"," ","l","o","g","i","n"," ","f",
      "o","r"," ">>

\* '. Starting authentication...'
FirstTimeTail ==
    <<"."," ","S","t","a","r","t","i","n","g"," ","a","u","t","h","e","n","t",
      "i","c","a","t","i","o","n",".",".",".">>

\* 'debug:'
DebugPrefix ==
    <<"d","e","b","u","g",":">>

\* 'test:'
TestPrefix ==
    <<"t","e","s","t",":">>

\* 'Debug mode: Listed files for '
DebugHead ==
    <<"D","e","b","u","g"," ","m","o","d","e",":"," ","L","i","s","t","e","d",
      " ","f","i","l","e","s"," ","f","o","r"," ">>

\* '. Check console for details.'
DebugTail ==
    <<"."," ","C","h","e","c","k"," ","c","o","n","s","o","l","e"," ","f","o",
      "r"," ","d","e","t","a","i","l","s",".">>

\* 'Comprehensive test completed for '
TestHead ==
    <<"C","o","m","p","r","e","h","e","n","s","i","v","e"," ","t","e","s","t",
      " ","c","o","m","p","l","e","t","e","d"," ","f","o","r"," ">>

\* '. Loaded '
TestMiddle ==
    <<"."," ","L","o","a","d","e","d"," ">>

\* ' documents. Check console for detailed analysis.'
TestTail ==
    <<" ","d","o","c","u","m","e","n","t","s","."," ","C","h","e","c","k"," ",
      "c","o","n","s","o","l","e"," ","f","o","r"," ","d","e","t","a","i","l",
      "e","d"," ","a","n","a","l","y","s","i","s",".">>

\* 'Existing token found for '
ExistingTokenHead ==
    <<"E","x","i","s","t","i","n","g"," ","t","o","k","e","n"," ","f","o","u",
      "n","d"," ","f","o","r"," ">>

\* '. Loading documents...'
ExistingTokenTail ==
    <<"."," ","L","o","a","d","i","n","g"," ","d","o","c","u","m","e","n","t",
      "s",".",".",".">>

\* 'Creating new authentication for '
CreatingAuthHead ==
    <<"C","r","e","a","t","i","n","g"," ","n","e","w"," ","a","u","t","h","e",
      "n","t","i","c","a","t","i","o","n"," ","f","o","r"," ">>

\* 'Successfully logged in as '
LoggedInHead ==
    <<"S","u","c","c","e","s","s","f","u","l","l","y"," ","l","o","g","g","e",
      "d"," ","i","n"," ","a","s"," ">>

\* '. You can now ask questions about your documents.'
LoggedInTail ==
    <<"."," ","Y","o","u"," ","c","a","n"," ","n","o","w"," ","a","s","k"," ",
      "q","u","e","s","t","i","o","n","s"," ","a","b","o","u","t"," ","y","o",
      "u","r"," ","d","o","c","u","m","e","n","t","s",".">>

\* 'Login failed: '
LoginFailedPrefix ==
    <<"L","o","g","i","n"," ","f","a","i","l","e","d",":"," ">>

\* 'a'
UserA ==
    <<"a">>

\* 'b'
UserB ==
    <<"b">>

\* 'a'
MessageA ==
    <<"a">>

\* ' b '
MessageB ==
    <<" ","b"," ">>

\* 'Debug:a'
MessageDebug ==
    <<"D","e","b","u","g",":","a">>

\* 'test:a'
MessageTest ==
    <<"t","e","s","t",":","a">>

\* 'access_denied'
AccessDenied ==
    <<"a","c","c","e","s","s","_","d","e","n","i","e","d">>

\* the browser sessions that talk to the app, each with its own chat_state
\* and last_user_msg
Conversations == {1, 2}

Assistant(content) == [role |-> "assistant", content |-> content]

User(content) == [role |-> "user", content |-> content]

\* no turn is being handled
Idle == [pc |-> "idle", number |-> 0, user_id |-> None, vectorstore |-> 0]

\* the user ids whose FAISS index is on disk when the app starts
IndexedUsers == {UserB}

\* the user ids with a token file tokens/<user_id>_token.json
TokenUsers == {UserB}

\* the functions a turn of the chat can be wired to
Handlers == {"respond_to_user", "respond_to_user_stream"}

\* web_app.py right after import: sessions = {}, user_state logged out, every
\* chat holds the initial message
WebFresh ==
    /\ sessions = <<>>
    /\ user_state = [logged_in |-> FALSE, user_id |-> None]
    /\ index_files = IndexedUsers
    /\ loads = 0
    /\ chat_history = [c \in Conversations |-> <<Assistant(InitialText)>>]
    /\ last_user_msg = [c \in Conversations |-> <<>>]
    /\ turn = [c \in Conversations |-> Idle]

\* nothing retrieved, answered, evaluated, returned or saved yet
CallFresh ==
    /\ calls = <<>>
    /\ all_docs = <<>>
    /\ unique_docs = <<>>
    /\ final_docs = <<>>
    /\ final_docs_limited = <<>>
    /\ total_chars = 0
    /\ relevant_docs = <<>>
    /\ llm_calls = 0
    /\ eval_calls = 0
    /\ context_validation = <<>>
    /\ evaluation = <<>>
    /\ ratings = <<>>
    /\ response = <<>>
    /\ yield_count = 0
    /\ last_yield = <<>>
    /\ result = NoResult
    /\ files = <<>>
    /\ saved = <<>>
    /\ now = 0

\* a fresh call, and the web app as it is wired in web_app.py, just started
Fresh ==
    /\ CallFresh
    /\ handler = "respond_to_user_stream"
    /\ WebFresh

\* a call of query_llm on the whole store, with one answer and one score
\* the LLMs may give
Init ==
    /\ pc = "mmr"
    /\ vectorstore = DocIds
    /\ query \in Queries
    /\ max_context_length \in MaxContextLengths
    /\ streaming = FALSE
    /\ llm_answers = {AnswerShort}
    /\ rating_replies = GoodOrRaise
    /\ response_text = <<>>
    /\ Fresh

\* return <string>
Return(kind, name) ==
    /\ result' = [kind |-> kind, name |-> name]
    /\ pc' = "done"

\* Say whose stream returns the string instead of yielding it
SayReturning(msg) ==
    /\ response' = msg
    /\ UNCHANGED <<yield_count, last_yield>>

\* the string of an early return; query_llm_stream yields it once instead
Say(msg) ==
    /\ response' = msg
    /\ IF streaming
       THEN yield_count' = 1 /\ last_yield' = msg
       ELSE UNCHANGED <<yield_count, last_yield>>

\* Strategy with one try block around all four searches: a raise skips the rest
StrategyInSharedTry(here, search_type, k, next) ==
    /\ pc = here
    /\ \/ \E docs \in SearchResults(vectorstore) :
            /\ all_docs' = all_docs \o docs
            /\ calls' = Append(calls, [search_type |-> search_type, k |-> k,
                                       ok |-> TRUE, docs |-> docs])
            /\ pc' = next
       \/ /\ all_docs' = all_docs
          /\ calls' = Append(calls, [search_type |-> search_type, k |-> k,
                                     ok |-> FALSE, docs |-> <<>>])
          /\ pc' = "after_strategies"
    /\ UNCHANGED <<unique_docs, final_docs, final_docs_limited, total_chars,
                   relevant_docs, result>>
    /\ UNCHANGED <<paramVars, answerVars, evalVars, outVars, saveVars, webVars>>

\* One retrieval strategy inside its own try/except: the retriever either
\* returns docs, which extend all_docs, or raises, which is printed and skipped.
Strategy(here, search_type, k, next) ==
    /\ pc = here
    /\ \/ \E docs \in SearchResults(vectorstore) :
            /\ all_docs' = all_docs \o docs
            /\ calls' = Append(calls, [search_type |-> search_type, k |-> k,
                                       ok |-> TRUE, docs |-> docs])
       \/ /\ all_docs' = all_docs
          /\ calls' = Append(calls, [search_type |-> search_type, k |-> k,
                                     ok |-> FALSE, docs |-> <<>>])
    /\ pc' = next
    /\ UNCHANGED <<unique_docs, final_docs, final_docs_limited, total_chars,
                   relevant_docs, result>>
    /\ UNCHANGED <<paramVars, answerVars, evalVars, outVars, saveVars, webVars>>

MMRSearch == Strategy("mmr", "mmr", EnhancedRetrievalCount, "similarity")

SimilaritySearch ==
    Strategy("similarity", "similarity", EnhancedRetrievalCount, "threshold")

ThresholdSearch ==
    Strategy("threshold", "similarity_score_threshold", EnhancedRetrievalCount, "broad")

BroadSearch == Strategy("broad", "similarity", BroadK, "after_strategies")

\* BasicSearch whose failure is skipped like that of a strategy
BasicSearchSkippingFailure ==
    /\ pc = "after_strategies"
    /\ all_docs = <<>>
    /\ \/ \E docs \in SearchResults(vectorstore) :
            /\ all_docs' = docs
            /\ calls' = Append(calls, [search_type |-> "similarity", k |-> BasicK,
                                       ok |-> TRUE, docs |-> docs])
       \/ /\ calls' = Append(calls, [search_type |-> "similarity", k |-> BasicK,
                                     ok |-> FALSE, docs |-> <<>>])
          /\ UNCHANGED all_docs
    /\ pc' = "dedup"
    /\ UNCHANGED <<unique_docs, final_docs, final_docs_limited, total_chars,
                   relevant_docs, result>>
    /\ UNCHANGED <<paramVars, answerVars, evalVars, outVars, saveVars, webVars>>

\* if not all_docs: one basic similarity search whose failure ends the call
BasicSearch ==
    /\ pc = "after_strategies"
    /\ all_docs = <<>>
    /\ \/ \E docs \in SearchResults(vectorstore) :
            /\ all_docs' = docs
            /\ calls' = Append(calls, [search_type |-> "similarity", k |-> BasicK,
                                       ok |-> TRUE, docs |-> docs])
            /\ pc' = "dedup"
            /\ UNCHANGED <<result, outVars>>
       \/ /\ calls' = Append(calls, [search_type |-> "similarity", k |-> BasicK,
                                     ok |-> FALSE, docs |-> <<>>])
          /\ Return("retrieval_error", <<>>)
          /\ Say(MsgRetrievalError)
          /\ UNCHANGED all_docs
    /\ UNCHANGED <<unique_docs, final_docs, final_docs_limited, total_chars,
                   relevant_docs>>
    /\ UNCHANGED <<paramVars, answerVars, evalVars, saveVars, webVars>>

\* seen_ids / unique_docs loop, final_docs = unique_docs, and the empty check
Deduplicate ==
    /\ \/ pc = "dedup"
       \/ pc = "after_strategies" /\ all_docs # <<>>
    /\ unique_docs' = UniqueDocs(all_docs)
    /\ final_docs' = unique_docs'
    /\ IF unique_docs' = <<>>
       THEN Return("no_documents", <<>>) /\ Say(MsgNoDocuments)
       ELSE pc' = "budget" /\ UNCHANGED <<result, outVars>>
    /\ UNCHANGED <<calls, all_docs, final_docs_limited, total_chars, relevant_docs>>
    /\ UNCHANGED <<paramVars, answerVars, evalVars, saveVars, webVars>>

\* the max_context_length loop; final_docs = final_docs_limited
Budget ==
    /\ pc = "budget"
    /\ LET limited == LimitDocs(final_docs, max_context_length)
       IN /\ final_docs_limited' = limited.docs
          /\ total_chars' = limited.total_chars
          /\ final_docs' = limited.docs
    /\ pc' = "filter"
    /\ UNCHANGED <<calls, all_docs, unique_docs, relevant_docs, result>>
    /\ UNCHANGED <<paramVars, answerVars, evalVars, outVars, saveVars, webVars>>

\* f"No documents found containing information about '{primary_name}'. ..."
MsgNoName(primary_name) == MsgNoNameHead \o primary_name \o MsgNoNameTail

\* Filter that falls back to the word overlap when no chunk mentions the name
FilterFallingBack ==
    /\ pc = "filter"
    /\ relevant_docs' =
          IF RelevantDocs(final_docs, query) # <<>>
          THEN RelevantDocs(final_docs, query)
          ELSE OverlapFilterFrom(final_docs, 1, query)
    /\ IF relevant_docs' = <<>>
       THEN /\ IF PotentialNamesOf[query] # <<>>
               THEN /\ Return("no_name_match", PrimaryNameOf[query])
                    /\ Say(MsgNoName(PrimaryNameOf[query]))
               ELSE /\ Return("no_relevant", <<>>)
                    /\ Say(MsgNoRelevant)
            /\ UNCHANGED final_docs
       ELSE /\ final_docs' = relevant_docs'
            /\ pc' = "generate"
            /\ UNCHANGED <<result, outVars>>
    /\ UNCHANGED <<calls, all_docs, unique_docs, final_docs_limited, total_chars>>
    /\ UNCHANGED <<paramVars, answerVars, evalVars, saveVars, webVars>>

\* the chunks the name loop has passed when it meets a title that is None
RECURSIVE BeforeNoneTitle(_, _)
BeforeNoneTitle(docs, i) ==
    IF i > Len(docs) \/ TitleIsNone[docs[i]] THEN <<>>
    ELSE <<docs[i]>> \o BeforeNoneTitle(docs, i + 1)

\* The relevance filter with its two early returns; final_docs = relevant_docs.
\* The name loop calls lower() on the title of every chunk, outside any try
\* block: a title that is None raises and leaves the call as an exception
\* (kind "filter_raised").  The word overlap loop does not read the title.
Filter ==
    /\ pc = "filter"
    /\ IF PotentialNamesOf[query] # <<>> /\ AuditRaises(final_docs)
       THEN /\ relevant_docs' = RelevantDocs(BeforeNoneTitle(final_docs, 1), query)
            /\ Return("filter_raised", <<>>)
            /\ UNCHANGED <<final_docs, outVars>>
       ELSE /\ relevant_docs' = RelevantDocs(final_docs, query)
            /\ IF relevant_docs' = <<>>
               THEN /\ IF PotentialNamesOf[query] # <<>>
                       THEN /\ Return("no_name_match", PrimaryNameOf[query])
                            /\ Say(MsgNoName(PrimaryNameOf[query]))
                       ELSE /\ Return("no_relevant", <<>>)
                            /\ Say(MsgNoRelevant)
                    /\ UNCHANGED final_docs
               ELSE /\ final_docs' = relevant_docs'
                    /\ pc' = "generate"
                    /\ UNCHANGED <<result, outVars>>
    /\ UNCHANGED <<calls, all_docs, unique_docs, final_docs_limited, total_chars>>
    /\ UNCHANGED <<paramVars, answerVars, evalVars, saveVars, webVars>>

\* the response is complete: query_llm returns it, query_llm_stream starts to
\* yield it
Finish(kind) ==
    /\ result' = [kind |-> kind, name |-> <<>>]
    /\ pc' = IF streaming THEN "yield" ELSE "done"

\* The prompt and the ChatAnthropic client are built outside the try block, so
\* a raise there leaves the call as an exception (kind "raised").  Inside the
\* try block qa.invoke either raises, which gives "Error: ...", or answers; the
\* auditor then builds the sources, the notes and the response, and a title
\* that is None raises there too, which gives "Error: ..." as well.  Parameter
\* evaluate_response is read here for the first time.
Generate ==
    /\ pc = "generate"
    /\ \/ /\ Return("raised", <<>>)
          /\ UNCHANGED <<answerVars, outVars>>
       \/ \E cause \in LLMFailures :
             /\ llm_calls' = llm_calls + 1
             /\ Return("llm_error", <<>>)
             /\ Say(ErrorPrefix \o cause)
             /\ UNCHANGED <<response_text, context_validation>>
       \/ \E answer \in llm_answers, evaluate_response \in BOOLEAN :
             /\ llm_calls' = llm_calls + 1
             /\ response_text' = answer
             /\ IF AuditRaises(final_docs)
                THEN /\ Return("audit_error", <<>>)
                     /\ Say(ErrorPrefix \o NoneTypeLower)
                     /\ UNCHANGED context_validation
                ELSE /\ context_validation' = ContextValidation(final_docs, answer)
                     /\ response' = Compose(answer, context_validation',
                                            Sources(final_docs))
                     /\ UNCHANGED <<yield_count, last_yield>>
                     /\ IF evaluate_response
                        THEN pc' = "evaluate" /\ UNCHANGED result
                        ELSE Finish("answered")
    /\ UNCHANGED <<retrievalVars, paramVars, evalVars, saveVars, webVars>>

\* if evaluate_response: the import of the evaluator and the call of
\* evaluate_qa_response inside one try/except; either may raise
Evaluate ==
    /\ pc = "evaluate"
    /\ eval_calls' = eval_calls + 1
    /\ \/ /\ response' = response \o EvaluationFailedNote
          /\ UNCHANGED <<evaluation, ratings>>
          /\ Finish("answered_evaluation_failed")
       \/ \E r1 \in rating_replies, r2 \in rating_replies :
             LET out == EvaluateQAResponse(query, response_text, <<r1, r2>>, now)
             IN /\ ratings' = SubSeq(<<r1, r2>>, 1, out.calls)
                /\ IF out.raised
                   THEN /\ response' = response \o EvaluationFailedNote
                        /\ UNCHANGED evaluation
                        /\ Finish("answered_evaluation_failed")
                   ELSE /\ evaluation' = out.evaluation
                        /\ response' = response \o EvalInfo(out.evaluation)
                        /\ Finish("answered")
    /\ UNCHANGED <<yield_count, last_yield>>
    /\ UNCHANGED <<retrievalVars, paramVars, answerVars, saveVars, webVars>>

\* the loop yielding response[:i] instead of response[:i+1]
YieldOffByOne ==
    /\ pc = "yield"
    /\ IF yield_count < Len(response)
       THEN /\ yield_count' = yield_count + 1
            /\ last_yield' = Take(response, yield_count)
            /\ UNCHANGED pc
       ELSE /\ pc' = "done"
            /\ UNCHANGED <<yield_count, last_yield>>
    /\ UNCHANGED <<response, result>>
    /\ UNCHANGED <<retrievalVars, paramVars, answerVars, evalVars, saveVars, webVars>>

\* the loop running over range(len(response) - 1): the last character is
\* never yielded
YieldStoppingShort ==
    /\ pc = "yield"
    /\ IF yield_count < Len(response) - 1
       THEN /\ yield_count' = yield_count + 1
            /\ last_yield' = Take(response, yield_count + 1)
            /\ UNCHANGED pc
       ELSE /\ pc' = "done"
            /\ UNCHANGED <<yield_count, last_yield>>
    /\ UNCHANGED <<response, result>>
    /\ UNCHANGED <<retrievalVars, paramVars, answerVars, evalVars, saveVars, webVars>>

\* for i in range(len(response)): yield response[:i+1]
Yield ==
    /\ pc = "yield"
    /\ IF yield_count < Len(response)
       THEN /\ yield_count' = yield_count + 1
            /\ last_yield' = Take(response, yield_count + 1)
            /\ UNCHANGED pc
       ELSE /\ pc' = "done"
            /\ UNCHANGED <<yield_count, last_yield>>
    /\ UNCHANGED <<response, result>>
    /\ UNCHANGED <<retrievalVars, paramVars, answerVars, evalVars, saveVars, webVars>>

Next ==
    \/ MMRSearch
    \/ SimilaritySearch
    \/ ThresholdSearch
    \/ BroadSearch
    \/ BasicSearch
    \/ Deduplicate
    \/ Budget
    \/ Filter
    \/ Generate
    \/ Evaluate

Spec == Init /\ [][Next]_vars

\* the stores of the calls whose answer is looked at: one chunk each
AnswerStores == {{1}, {5}, {8}, {9}}

AnswerQueries == {QueryLower, QueryShort}

\* a call of query_llm on a small store
InitAnswer ==
    /\ pc = "mmr"
    /\ vectorstore \in AnswerStores
    /\ query \in AnswerQueries
    /\ max_context_length = 100
    /\ streaming = FALSE
    /\ llm_answers = Answers
    /\ rating_replies = RatingReplies
    /\ response_text = <<>>
    /\ Fresh

SpecAnswer == InitAnswer /\ [][Next]_vars

\* a call of query_llm or of query_llm_stream on a store of one chunk
InitStream ==
    /\ pc = "mmr"
    /\ vectorstore = {9}
    /\ query = QueryLower
    /\ max_context_length = 100
    /\ streaming \in BOOLEAN
    /\ llm_answers = Answers
    /\ rating_replies = GoodOrRaise
    /\ response_text = <<>>
    /\ Fresh

NextStream == Next \/ Yield

SpecStream == InitStream /\ [][NextStream]_vars

\* the stores and queries on which the two functions are compared: chunk 9
\* names priya, chunk 7 does not, and neither shares a word with 'who is ai'
EquivStores == {{7}, {9}}

\* query_llm and query_llm_stream called with the same arguments
InitEquiv ==
    /\ pc = "mmr"
    /\ vectorstore \in EquivStores
    /\ query \in AnswerQueries
    /\ max_context_length = 100
    /\ streaming \in BOOLEAN
    /\ llm_answers = {AnswerShort}
    /\ rating_replies = GoodOrRaise
    /\ response_text = <<>>
    /\ Fresh

SpecEquiv == InitEquiv /\ [][NextStream]_vars

EvalQueries == {QueryFruit, QueryLower, QueryShort}

EvalAnswers == {AnswerFruit, AnswerShort, AnswerLong, <<>>}

\* a call of evaluate_qa_response(query, answer); answer is held in
\* response_text
InitEval ==
    /\ pc = "evaluate_qa_response"
    /\ vectorstore = {}
    /\ query \in EvalQueries
    /\ max_context_length = 0
    /\ streaming = FALSE
    /\ llm_answers = {}
    /\ rating_replies = RatingReplies
    /\ Fresh
    /\ response_text \in EvalAnswers

\* evaluate_qa_response called on its own
EvaluateQAResponseCall ==
    /\ pc = "evaluate_qa_response"
    /\ \E r1 \in rating_replies, r2 \in rating_replies :
          LET out == EvaluateQAResponse(query, response_text, <<r1, r2>>, now)
          IN /\ ratings' = SubSeq(<<r1, r2>>, 1, out.calls)
             /\ evaluation' = out.evaluation
             /\ IF out.raised THEN Return("raised", <<>>)
                              ELSE Return("evaluated", <<>>)
    /\ UNCHANGED <<eval_calls, retrievalVars, paramVars, answerVars, outVars,
                   saveVars, webVars>>

NextEval == EvaluateQAResponseCall

SpecEval == InitEval /\ [][NextEval]_vars

(***************************************************************************)
(* evaluator.py: save_evaluation_results, and json as it writes and reads  *)
(***************************************************************************)
\* how json.dump writes one character of a string
EscapeChar(c) ==
    IF c = "\"" THEN <<"\\", "\"">>
    ELSE IF c = "\\" THEN <<"\\", "\\">>
    ELSE IF c = "\n" THEN <<"\\", "n">>
    ELSE IF c = "\t" THEN <<"\\", "t">>
    ELSE <<c>>

\* Escape that leaves the backslash as it is
RECURSIVE EscapeQuotesOnly(_)
EscapeQuotesOnly(s) ==
    IF s = <<>> THEN <<>>
    ELSE (IF Head(s) = "\\" THEN <<"\\">> ELSE EscapeChar(Head(s)))
         \o EscapeQuotesOnly(Tail(s))

RECURSIVE Escape(_)
Escape(s) == IF s = <<>> THEN <<>> ELSE EscapeChar(Head(s)) \o Escape(Tail(s))

Quoted(s) == <<"\"">> \o Escape(s) \o <<"\"">>

Spaces(n) == [i \in 1..n |-> " "]

\* json.dump(results, f, indent=2)
IndentWidth == 2

RECURSIVE JsonEncode(_, _)
RECURSIVE EncodeItems(_, _, _)
RECURSIVE EncodeMembers(_, _, _)
JsonEncode(v, indent) ==
    IF "int" \in DOMAIN v THEN IntStr(v.int)
    ELSE IF "float" \in DOMAIN v THEN FloatStr(v.float)
    ELSE IF "str" \in DOMAIN v THEN Quoted(v.str)
    ELSE IF "list" \in DOMAIN v
    THEN IF v.list = <<>> THEN <<"[", "]">>
         ELSE <<"[", "\n">> \o EncodeItems(v.list, 1, indent + IndentWidth)
              \o <<"\n">> \o Spaces(indent) \o <<"]">>
    ELSE IF "dict" \in DOMAIN v
    THEN IF v.dict = <<>> THEN <<"{", "}">>
         ELSE <<"{", "\n">> \o EncodeMembers(v.dict, 1, indent + IndentWidth)
              \o <<"\n">> \o Spaces(indent) \o <<"}">>
    ELSE NullText

EncodeItems(items, i, indent) ==
    Spaces(indent) \o JsonEncode(items[i], indent)
        \o (IF i < Len(items)
            THEN <<",", "\n">> \o EncodeItems(items, i + 1, indent)
            ELSE <<>>)

EncodeMembers(pairs, i, indent) ==
    Spaces(indent) \o Quoted(pairs[i][1]) \o <<":", " ">>
        \o JsonEncode(pairs[i][2], indent)
        \o (IF i < Len(pairs)
            THEN <<",", "\n">> \o EncodeMembers(pairs, i + 1, indent)
            ELSE <<>>)

JsonDumps(v) == JsonEncode(v, 0)

\* The reader: each step gives the value read and the position after it, or
\* ok = FALSE for a text that is no JSON.
Bad == [ok |-> FALSE, value |-> NullV, next |-> 0]

Good(v, n) == [ok |-> TRUE, value |-> v, next |-> n]

RECURSIVE SkipSpace(_, _)
SkipSpace(s, i) ==
    IF i <= Len(s) /\ IsSpace(s[i]) THEN SkipSpace(s, i + 1) ELSE i

\* the string whose opening quote is before position i
RECURSIVE ReadString(_, _, _)
ReadString(s, i, acc) ==
    IF i > Len(s) THEN Bad
    ELSE IF s[i] = "\"" THEN Good(StrV(acc), i + 1)
    ELSE IF s[i] = "\\"
    THEN IF i + 1 > Len(s) THEN Bad
         ELSE IF s[i + 1] = "\"" THEN ReadString(s, i + 2, Append(acc, "\""))
         ELSE IF s[i + 1] = "\\" THEN ReadString(s, i + 2, Append(acc, "\\"))
         ELSE IF s[i + 1] = "n" THEN ReadString(s, i + 2, Append(acc, "\n"))
         ELSE IF s[i + 1] = "t" THEN ReadString(s, i + 2, Append(acc, "\t"))
         ELSE Bad
    ELSE ReadString(s, i + 1, Append(acc, s[i]))

RECURSIVE DigitsEnd(_, _)
DigitsEnd(s, i) ==
    IF i <= Len(s) /\ s[i] \in DigitChars THEN DigitsEnd(s, i + 1) ELSE i

\* int of a run of digits
RECURSIVE IntOf(_)
IntOf(ds) ==
    IF ds = <<>> THEN 0
    ELSE IntOf(SubSeq(ds, 1, Len(ds) - 1)) * 10 + DigitValue(ds[Len(ds)])

\* a number: an int, or a float with one or two decimals
ReadNumber(s, i) ==
    LET e == DigitsEnd(s, i)
        whole == IntOf(SubSeq(s, i, e - 1))
    IN IF e <= Len(s) /\ s[e] = "."
       THEN LET f == DigitsEnd(s, e + 1)
                frac == SubSeq(s, e + 1, f - 1)
            IN IF Len(frac) = 1 THEN Good(FloatV(whole * 100 + IntOf(frac) * 10), f)
               ELSE IF Len(frac) = 2 THEN Good(FloatV(whole * 100 + IntOf(frac)), f)
               ELSE Bad
       ELSE Good(IntV(whole), e)

RECURSIVE ReadValue(_, _)
RECURSIVE ReadItems(_, _, _)
RECURSIVE ReadMembers(_, _, _)
ReadValue(s, i) ==
    LET j == SkipSpace(s, i)
    IN IF j > Len(s) THEN Bad
       ELSE IF s[j] = "{" THEN ReadMembers(s, j + 1, <<>>)
       ELSE IF s[j] = "[" THEN ReadItems(s, j + 1, <<>>)
       ELSE IF s[j] = "\"" THEN ReadString(s, j + 1, <<>>)
       ELSE IF s[j] \in DigitChars THEN ReadNumber(s, j)
       ELSE IF j + 3 <= Len(s) /\ SubSeq(s, j, j + 3) = NullText
       THEN Good(NullV, j + 4)
       ELSE Bad

ReadItems(s, i, acc) ==
    LET j == SkipSpace(s, i)
    IN IF j > Len(s) THEN Bad
       ELSE IF s[j] = "]" THEN Good(ListV(acc), j + 1)
       ELSE IF s[j] = "," THEN ReadItems(s, j + 1, acc)
       ELSE LET item == ReadValue(s, j)
            IN IF item.ok THEN ReadItems(s, item.next, Append(acc, item.value))
               ELSE Bad

ReadMembers(s, i, acc) ==
    LET j == SkipSpace(s, i)
    IN IF j > Len(s) THEN Bad
       ELSE IF s[j] = "}" THEN Good(DictV(acc), j + 1)
       ELSE IF s[j] = "," THEN ReadMembers(s, j + 1, acc)
       ELSE IF s[j] # "\"" THEN Bad
       ELSE LET key == ReadString(s, j + 1, <<>>)
                colon == IF key.ok THEN SkipSpace(s, key.next) ELSE 0
                member == IF key.ok /\ colon <= Len(s) /\ s[colon] = ":"
                          THEN ReadValue(s, colon + 1) ELSE Bad
            IN IF member.ok
               THEN ReadMembers(s, member.next,
                                Append(acc, <<key.value.str, member.value>>))
               ELSE Bad

\* what json.load raises on
Invalid == [invalid |-> TRUE]

\* json.load of a whole file
JsonLoads(text) ==
    LET read == ReadValue(text, 1)
    IN IF read.ok /\ SkipSpace(text, read.next) > Len(text)
       THEN read.value ELSE Invalid

\* datetime.now().strftime("%Y%m%d_%H%M%S"): one text per second
StrfTime(t) == IntStr(t)

\* f"evaluation_results_{timestamp}.json"
DefaultFilename(t) == ResultsPrefix \o StrfTime(t) \o JsonSuffix

\* a result of run_evaluation_test_suite: one failed test and no statistics
SuiteResults ==
    DictV(<< <<KeyTestSuiteResults,
               ListV(<< DictV(<< <<KeyQuery, StrV(QueryLower)>>,
                                 <<KeyEvaluation,
                                   DictV(ErrorResult(OverloadedError, 0))>> >>) >>)>>,
             <<KeyOverallStats, DictV(<<>>)>>,
             <<KeyTimestamp, StrV(IsoFormat(0))>> >>)

\* the mappings handed to save_evaluation_results: scores, an error whose
\* cause holds quotes, scores of a query that holds a double quote, a new
\* line and a backslash, and the result of a test suite
SaveInputs ==
    {DictV(ScoreResult(QueryLower, AnswerShort, 5, 7, 0)),
     DictV(ErrorResult(InvalidLiteralHead \o <<"x", "'">>, 0)),
     DictV(ScoreResult(AnswerQuoted, <<>>, 0, 5, 1)),
     SuiteResults}

\* an explicit file name, or None for the default one
Filenames == {None, FileRun}

\* how many saves one run of the model makes
MaxSaves == 2

\* how far the clock of the model runs, in seconds
MaxNow == 1

\* the program saves evaluation results, nothing written yet
InitSave ==
    /\ pc = "idle"
    /\ vectorstore = {}
    /\ query = <<>>
    /\ max_context_length = 0
    /\ streaming = FALSE
    /\ llm_answers = {}
    /\ rating_replies = {}
    /\ response_text = <<>>
    /\ Fresh

\* save_evaluation_results(results, filename): open(filename, 'w') empties
\* the file, json.dump writes results into it
SaveEvaluationResults ==
    /\ pc = "idle"
    /\ Len(saved) < MaxSaves
    /\ \E results \in SaveInputs, filename \in Filenames :
          LET name == IF filename = None THEN DefaultFilename(now) ELSE filename
          IN /\ files' = (name :> JsonDumps(results)) @@ files
             /\ saved' = Append(saved, [filename |-> name, results |-> results])
    /\ UNCHANGED <<pc, now, result>>
    /\ UNCHANGED <<retrievalVars, paramVars, answerVars, evalVars, outVars,
                   webVars>>

\* a second passes
Tick ==
    /\ pc = "idle"
    /\ now < MaxNow
    /\ now' = now + 1
    /\ UNCHANGED <<pc, files, saved, result>>
    /\ UNCHANGED <<retrievalVars, paramVars, answerVars, evalVars, outVars,
                   webVars>>

NextSave == SaveEvaluationResults \/ Tick

SpecSave == InitSave /\ [][NextSave]_vars

(***************************************************************************)
(* web_app.py: display_user_message, respond_to_user and                   *)
(* respond_to_user_stream.  sessions and user_state are globals of the     *)
(* module, shared by all conversations; chat_state and last_user_msg       *)
(* belong to one conversation.  One step is what a handler does between    *)
(* two points at which the handler of another conversation can run.        *)
(***************************************************************************)
\* how many turns a conversation of the model has
MaxTurns == 2

\* what the user of conversation c types in turn n: an identifier first (the
\* two conversations enter different ones), a question afterwards
UserMessages(c, n) ==
    IF n > 1 THEN {QueryLower}
    ELSE IF c = 1 THEN {MessageA, MessageDebug}
    ELSE {MessageB, MessageTest}

\* str(e) of what authentication, document loading and index creation raise
LoginFailures == {AccessDenied}

\* what query_llm gives the web app
WebReplies == {MsgNoRelevant}

\* len(docs) of test_comprehensive_loading
TestDocCounts == {0}

\* s.startswith(prefix)
StartsWith(s, prefix) ==
    Len(prefix) <= Len(s) /\ SubSeq(s, 1, Len(prefix)) = prefix

\* if chat_history and chat_history[-1]["content"] == text: chat_history.pop()
PopIfLast(history, text) ==
    IF history # <<>> /\ history[Len(history)].content = text
    THEN SubSeq(history, 1, Len(history) - 1)
    ELSE history

\* how a handler hands its response to the chat: respond_to_user_stream
\* appends it; respond_to_user drops a last message "..." and appends it
Reply(history, text) ==
    IF handler = "respond_to_user_stream"
    THEN Append(history, Assistant(text))
    ELSE Append(PopIfLast(history, EllipsisText), Assistant(text))

\* display_user_message
DisplayUserMessage(c) ==
    /\ pc = "web"
    /\ turn[c].pc \in {"idle", "raised", "key_error"}
    /\ turn[c].number < MaxTurns
    /\ \E message \in UserMessages(c, turn[c].number + 1) :
          /\ chat_history' = [chat_history EXCEPT ![c] =
                                 @ \o <<User(message), Assistant(ProcessingText)>>]
          /\ last_user_msg' = [last_user_msg EXCEPT ![c] = message]
          /\ turn' = [turn EXCEPT ![c] =
                         [pc |-> "respond", number |-> turn[c].number + 1,
                          user_id |-> None, vectorstore |-> 0]]
    /\ UNCHANGED <<handler, sessions, user_state, index_files, loads>>
    /\ UNCHANGED callVars

\* if not user_state["logged_in"]: user_id = last_user_message.strip()
Respond(c) ==
    /\ pc = "web"
    /\ turn[c].pc = "respond"
    /\ IF ~user_state.logged_in
       THEN turn' = [turn EXCEPT ![c].pc = "login",
                                 ![c].user_id = Strip(last_user_msg[c])]
       ELSE turn' = [turn EXCEPT ![c].pc = "query"]
    /\ UNCHANGED <<handler, sessions, user_state, index_files, loads, chat_history,
                   last_user_msg>>
    /\ UNCHANGED callVars
    /\ UNCHANGED callVars

\* The login branch up to the loading: the status messages, and the debug:
\* and test: identifiers, which are looked at only when no index is on disk
\* and which return at once.  list_drive_files and test_comprehensive_loading
\* may raise like everything else inside the try.
LoginStart(c) ==
    /\ pc = "web"
    /\ turn[c].pc = "login"
    /\ LET u == turn[c].user_id
           first == Append(chat_history[c], Assistant(FirstTimeHead \o u \o FirstTimeTail))
       IN IF u \in index_files
          THEN /\ chat_history' = [chat_history EXCEPT ![c] =
                        Append(@, Assistant(CheckingHead \o u \o EllipsisText))
                          \o (IF u \in TokenUsers
                              THEN <<Assistant(TokenFoundHead \o u \o TokenFoundTail)>>
                              ELSE <<>>)]
               /\ turn' = [turn EXCEPT ![c].pc = "load_existing"]
          ELSE IF StartsWith(Lower(u), DebugPrefix)
          THEN /\ \/ chat_history' = [chat_history EXCEPT ![c] =
                        Append(first, Assistant(DebugHead \o SubSeq(u, 7, Len(u))
                                                    \o DebugTail))]
                  \/ \E cause \in LoginFailures :
                        chat_history' = [chat_history EXCEPT ![c] =
                            Reply(first, LoginFailedPrefix \o cause)]
               /\ turn' = [turn EXCEPT ![c].pc = "idle"]
          ELSE IF StartsWith(Lower(u), TestPrefix)
          THEN /\ \/ \E n \in TestDocCounts :
                        chat_history' = [chat_history EXCEPT ![c] =
                            Append(first, Assistant(TestHead \o SubSeq(u, 6, Len(u))
                                     \o TestMiddle \o IntStr(n) \o TestTail))]
                  \/ \E cause \in LoginFailures :
                        chat_history' = [chat_history EXCEPT ![c] =
                            Reply(first, LoginFailedPrefix \o cause)]
               /\ turn' = [turn EXCEPT ![c].pc = "idle"]
          ELSE /\ chat_history' = [chat_history EXCEPT ![c] =
                        Append(first,
                               IF u \in TokenUsers
                               THEN Assistant(ExistingTokenHead \o u \o ExistingTokenTail)
                               ELSE Assistant(CreatingAuthHead \o u \o EllipsisText))]
               /\ turn' = [turn EXCEPT ![c].pc = "load_new"]
    /\ UNCHANGED <<handler, sessions, user_state, index_files, loads, last_user_msg>>
    /\ UNCHANGED callVars

\* LoadIndex that enters the session before it loads, so that a failed login
\* leaves the entry behind
LoadIndexRegisteringFirst(c) ==
    /\ pc = "web"
    /\ turn[c].pc \in {"load_existing", "load_new"}
    /\ LET u == turn[c].user_id
       IN /\ sessions' = (u :> [vectorstore |-> loads + 1]) @@ sessions
          /\ loads' = loads + 1
          /\ \/ \E cause \in LoginFailures :
                   /\ chat_history' = [chat_history EXCEPT ![c] =
                         Reply(@, LoginFailedPrefix \o cause)]
                   /\ turn' = [turn EXCEPT ![c].pc = "idle"]
                   /\ UNCHANGED index_files
             \/ /\ turn' = [turn EXCEPT ![c].pc = "store_session",
                                        ![c].vectorstore = loads + 1]
                /\ index_files' = index_files \cup {u}
                /\ UNCHANGED chat_history
    /\ UNCHANGED <<handler, user_state, last_user_msg>>
    /\ UNCHANGED callVars

\* load_or_create_vectorstore on the index on disk, or load_documents and
\* load_or_create_vectorstore on the documents, which writes the index to
\* disk.  A raise goes to the except: "Login failed: ...".
LoadIndex(c) ==
    /\ pc = "web"
    /\ turn[c].pc \in {"load_existing", "load_new"}
    /\ LET u == turn[c].user_id
       IN \/ \E cause \in LoginFailures :
                /\ chat_history' = [chat_history EXCEPT ![c] =
                      Reply(@, LoginFailedPrefix \o cause)]
                /\ turn' = [turn EXCEPT ![c].pc = "idle"]
                /\ UNCHANGED <<loads, index_files>>
          \/ /\ loads' = loads + 1
             /\ turn' = [turn EXCEPT ![c].pc = "store_session",
                                     ![c].vectorstore = loads + 1]
             /\ IF turn[c].pc = "load_existing"
                THEN /\ chat_history' = [chat_history EXCEPT ![c] =
                           Append(@, Assistant(SessionLoadedHead \o u \o <<".">>))]
                     /\ UNCHANGED index_files
                ELSE /\ index_files' = index_files \cup {u}
                     /\ UNCHANGED chat_history
    /\ UNCHANGED <<handler, sessions, user_state, last_user_msg>>
    /\ UNCHANGED callVars

\* LoginWrite with the three assignments in the opposite order
LoginWriteFlagFirst(c) ==
    /\ pc = "web"
    /\ LET u == turn[c].user_id
       IN \/ /\ turn[c].pc = "store_session"
             /\ user_state' = [user_state EXCEPT !.logged_in = TRUE]
             /\ turn' = [turn EXCEPT ![c].pc = "store_user_id"]
             /\ UNCHANGED <<sessions, chat_history>>
          \/ /\ turn[c].pc = "store_user_id"
             /\ user_state' = [user_state EXCEPT !.user_id = u]
             /\ turn' = [turn EXCEPT ![c].pc = "store_logged_in"]
             /\ UNCHANGED <<sessions, chat_history>>
          \/ /\ turn[c].pc = "store_logged_in"
             /\ sessions' = (u :> [vectorstore |-> turn[c].vectorstore]) @@ sessions
             /\ chat_history' = [chat_history EXCEPT ![c] =
                   Reply(@, LoggedInHead \o u \o LoggedInTail)]
             /\ turn' = [turn EXCEPT ![c].pc = "idle"]
             /\ UNCHANGED user_state
    /\ UNCHANGED <<handler, index_files, loads, last_user_msg>>
    /\ UNCHANGED callVars

\* sessions[user_id] = {...}; user_state["user_id"] = user_id;
\* user_state["logged_in"] = True, one assignment a step, and the message of
\* the successful login
LoginWrite(c) ==
    /\ pc = "web"
    /\ LET u == turn[c].user_id
       IN \/ /\ turn[c].pc = "store_session"
             /\ sessions' = (u :> [vectorstore |-> turn[c].vectorstore]) @@ sessions
             /\ turn' = [turn EXCEPT ![c].pc = "store_user_id"]
             /\ UNCHANGED <<user_state, chat_history>>
          \/ /\ turn[c].pc = "store_user_id"
             /\ user_state' = [user_state EXCEPT !.user_id = u]
             /\ turn' = [turn EXCEPT ![c].pc = "store_logged_in"]
             /\ UNCHANGED <<sessions, chat_history>>
          \/ /\ turn[c].pc = "store_logged_in"
             /\ user_state' = [user_state EXCEPT !.logged_in = TRUE]
             /\ chat_history' = [chat_history EXCEPT ![c] =
                   Reply(@, LoggedInHead \o u \o LoggedInTail)]
             /\ turn' = [turn EXCEPT ![c].pc = "idle"]
             /\ UNCHANGED sessions
    /\ UNCHANGED <<handler, index_files, loads, last_user_msg>>
    /\ UNCHANGED callVars

\* QueryLookup that loads the index of the user again instead of using the
\* handle of the session
QueryLookupReloading(c) ==
    /\ pc = "web"
    /\ turn[c].pc = "query"
    /\ LET u == user_state.user_id
       IN /\ loads' = loads + 1
          /\ turn' = [turn EXCEPT ![c].pc = "answer",
                                  ![c].user_id = u,
                                  ![c].vectorstore = loads + 1]
          /\ chat_history' = [chat_history EXCEPT ![c] =
                IF handler = "respond_to_user_stream"
                THEN Append(PopIfLast(@, ProcessingText), Assistant(<<>>))
                ELSE @]
    /\ UNCHANGED <<handler, sessions, user_state, index_files, last_user_msg>>
    /\ UNCHANGED callVars

\* The query branch up to the call: user_id = user_state["user_id"] and
\* vectorstore = sessions[user_id]["vectorstore"], a KeyError when the key is
\* missing; respond_to_user_stream then drops the loading indicator and
\* appends an empty assistant message.
QueryLookup(c) ==
    /\ pc = "web"
    /\ turn[c].pc = "query"
    /\ LET u == user_state.user_id
       IN IF u \notin DOMAIN sessions
          THEN /\ turn' = [turn EXCEPT ![c].pc = "key_error", ![c].user_id = u]
               /\ UNCHANGED chat_history
          ELSE /\ turn' = [turn EXCEPT ![c].pc = "answer",
                                       ![c].user_id = u,
                                       ![c].vectorstore = sessions[u].vectorstore]
               /\ chat_history' = [chat_history EXCEPT ![c] =
                     IF handler = "respond_to_user_stream"
                     THEN Append(PopIfLast(@, ProcessingText), Assistant(<<>>))
                     ELSE @]
    /\ UNCHANGED <<handler, sessions, user_state, index_files, loads, last_user_msg>>
    /\ UNCHANGED callVars

\* query_llm or query_llm_stream on the handle: a raise leaves the handler,
\* a string becomes the content of the last message (respond_to_user_stream)
\* or a new message (respond_to_user)
QueryAnswer(c) ==
    /\ pc = "web"
    /\ turn[c].pc = "answer"
    /\ \/ /\ turn' = [turn EXCEPT ![c].pc = "raised"]
          /\ UNCHANGED chat_history
       \/ \E reply \in WebReplies :
             /\ chat_history' = [chat_history EXCEPT ![c] =
                   IF handler = "respond_to_user_stream"
                   THEN [@ EXCEPT ![Len(@)].content = reply]
                   ELSE Reply(@, reply)]
             /\ turn' = [turn EXCEPT ![c].pc = "idle"]
    /\ UNCHANGED <<handler, sessions, user_state, index_files, loads, last_user_msg>>
    /\ UNCHANGED callVars

\* the web app just started, no call of query_llm under way
InitWeb ==
    /\ pc = "web"
    /\ handler \in Handlers
    /\ vectorstore = {}
    /\ query = <<>>
    /\ max_context_length = 0
    /\ streaming = FALSE
    /\ llm_answers = {}
    /\ rating_replies = {}
    /\ response_text = <<>>
    /\ CallFresh
    /\ WebFresh

NextWeb ==
    \/ \E c \in Conversations : DisplayUserMessage(c)
    \/ \E c \in Conversations : Respond(c)
    \/ \E c \in Conversations : LoginStart(c)
    \/ \E c \in Conversations : LoadIndex(c)
    \/ \E c \in Conversations : LoginWrite(c)
    \/ \E c \in Conversations : QueryLookup(c)
    \/ \E c \in Conversations : QueryAnswer(c)

SpecWeb == InitWeb /\ [][NextWeb]_vars




(***************************************************************************)
(* How far the call has come                                               *)
(***************************************************************************)
StrategiesDone == pc \notin {"mmr", "similarity", "threshold", "broad"}

DedupDone ==
    \/ pc \in {"budget", "filter", "generate", "evaluate"}
    \/ pc = "done" /\ result.kind # "retrieval_error"

BudgetDone ==
    \/ pc \in {"filter", "generate", "evaluate"}
    \/ pc = "done" /\ result.kind \notin {"retrieval_error", "no_documents"}

FilterDone ==
    \/ pc \in {"generate", "evaluate"}
    \/ pc = "done" /\ result.kind \notin {"retrieval_error", "no_documents",
                                           "filter_raised"}

\* 'priya'
NamePriya == <<"p","r","i","y","a">>

\* whether the text or the title of chunk d contains name, ignoring case
TextOrTitleHas(d, name) ==
    \/ Contains(Lower(Corpus[d].page_content), Lower(name))
    \/ /\ "title" \in DOMAIN Corpus[d].metadata
       /\ Contains(Lower(Corpus[d].metadata.title), Lower(name))

HasPriya == Tabulate([d \in CorpusIds |-> TextOrTitleHas(d, NamePriya)])

\* the first candidate name token of each query that has one
FirstCandidate ==
    Tabulate([q \in Queries |->
        IF FindNames(q) # <<>> THEN FindNames(q)[1]
        ELSE IF LowercaseWords(q) # <<>> THEN LowercaseWords(q)[1]
        ELSE <<>>])

HasFirstCandidate ==
    Tabulate([qd \in Queries \X CorpusIds |->
        FirstCandidate[qd[1]] # <<>> /\ TextOrTitleHas(qd[2], FirstCandidate[qd[1]])])

\* the sum of the text lengths of a chunk sequence
RECURSIVE TotalLength(_)
TotalLength(docs) ==
    IF docs = <<>> THEN 0
    ELSE Len(Corpus[Head(docs)].page_content) + TotalLength(Tail(docs))

IsPrefix(s, t) == Len(s) <= Len(t) /\ s = SubSeq(t, 1, Len(s))

(***************************************************************************)
(* C1.  For the query "Tell me about Priya's experience" the primary       *)
(* subject is "priya", and the relevance filter retains exactly the chunks *)
(* of its input whose text or title mentions "priya", ignoring case.       *)
(***************************************************************************)
C1_PriyaIsPrimarySubject ==
    (query = QueryTell /\ FilterDone) =>
        /\ PrimaryNameOf[query] = NamePriya
        /\ relevant_docs = SelectSeq(final_docs_limited, LAMBDA d : HasPriya[d])

(***************************************************************************)
(* C2.  The budgeter truncates the already filtered chunk sequence: the    *)
(* chunks used for the answer are the budgeted prefix of the chunks that   *)
(* pass the relevance filter, so that chunks the filter excludes never     *)
(* cost a passing chunk its place.                                         *)
(***************************************************************************)
C2_BudgetAfterFilter ==
    FilterDone =>
        relevant_docs =
            LimitDocs(RelevantDocs(unique_docs, query), max_context_length).docs

(***************************************************************************)
(* C3.  The four retrieval searches are issued in strategy order whatever  *)
(* subset of them raises; the results of those that succeed make up the    *)
(* concatenated list in that order, and no raise ends the call.            *)
(***************************************************************************)
ExpectedStrategies ==
    << [search_type |-> "mmr", k |-> 16],
       [search_type |-> "similarity", k |-> 16],
       [search_type |-> "similarity_score_threshold", k |-> 16],
       [search_type |-> "similarity", k |-> 20] >>

\* the results of the successful calls among the first n, in order
RECURSIVE SuccessfulDocs(_, _)
SuccessfulDocs(cs, n) ==
    IF n = 0 THEN <<>>
    ELSE SuccessfulDocs(cs, n - 1) \o (IF cs[n].ok THEN cs[n].docs ELSE <<>>)

StrategiesIssued ==
    CASE pc = "mmr" -> 0
      [] pc = "similarity" -> 1
      [] pc = "threshold" -> 2
      [] pc = "broad" -> 3
      [] OTHER -> 4

C3_StrategiesIndependent ==
    /\ Len(calls) >= StrategiesIssued
    /\ ~StrategiesDone => Len(calls) = StrategiesIssued
    /\ \A i \in 1..StrategiesIssued :
          /\ calls[i].search_type = ExpectedStrategies[i].search_type
          /\ calls[i].k = ExpectedStrategies[i].k
    /\ (~StrategiesDone \/ pc = "after_strategies") =>
          /\ all_docs = SuccessfulDocs(calls, StrategiesIssued)
          /\ result.kind = "none"

C3_Witness ==
    /\ pc = "after_strategies"
    /\ ~calls[1].ok /\ calls[2].ok /\ ~calls[3].ok /\ calls[4].ok
    /\ calls[2].docs = <<1>>
    /\ calls[4].docs = <<3>>
    /\ all_docs = <<1, 3>>

(***************************************************************************)
(* C4.  When all four retrieval searches fail, exactly one more plain      *)
(* similarity search with k = 20 is issued; when that fails too the call   *)
(* ends with the "Unable to retrieve any documents" outcome without any    *)
(* deduplication, filtering, LLM call or evaluator call.                   *)
(***************************************************************************)
AllFourFailed == Len(calls) >= 4 /\ \A i \in 1..4 : ~calls[i].ok

C4_FallbackSearch ==
    /\ Len(calls) <= 5
    /\ (AllFourFailed /\ pc # "after_strategies") =>
          /\ Len(calls) = 5
          /\ calls[5].search_type = "similarity"
          /\ calls[5].k = 20
    /\ (AllFourFailed /\ Len(calls) = 5 /\ ~calls[5].ok) =>
          /\ pc = "done"
          /\ result.kind = "retrieval_error"
          /\ unique_docs = <<>>
          /\ final_docs_limited = <<>>
          /\ relevant_docs = <<>>
          /\ llm_calls = 0
          /\ eval_calls = 0

C4_Witness ==
    /\ AllFourFailed
    /\ Len(calls) = 5
    /\ ~calls[5].ok
    /\ result.kind = "retrieval_error"

(***************************************************************************)
(* C5.  The deduplicated list holds exactly one chunk for every identity   *)
(* key of the concatenated list (the first available of file_id, id and    *)
(* the first 100 characters of the text); that chunk is the first          *)
(* occurrence of its key, and the first-seen order is kept.                *)
(***************************************************************************)
ResolvedKey ==
    Tabulate([d \in CorpusIds |->
        LET md == Corpus[d].metadata
        IN IF "file_id" \in DOMAIN md THEN md.file_id
           ELSE IF "id" \in DOMAIN md THEN md.id
           ELSE Take(Corpus[d].page_content, 100)])

\* the position of the first chunk of docs whose key is key
FirstIndexOfKey(docs, key) ==
    CHOOSE i \in 1..Len(docs) :
        /\ ResolvedKey[docs[i]] = key
        /\ \A j \in 1..(i - 1) : ResolvedKey[docs[j]] # key

C5_DeduplicationByKey ==
    DedupDone =>
        /\ \A i, j \in DOMAIN unique_docs :
              i # j => ResolvedKey[unique_docs[i]] # ResolvedKey[unique_docs[j]]
        /\ {ResolvedKey[all_docs[i]] : i \in DOMAIN all_docs}
              = {ResolvedKey[unique_docs[j]] : j \in DOMAIN unique_docs}
        /\ \A j \in DOMAIN unique_docs :
              unique_docs[j] =
                  all_docs[FirstIndexOfKey(all_docs, ResolvedKey[unique_docs[j]])]
        /\ \A i, j \in DOMAIN unique_docs :
              i < j => FirstIndexOfKey(all_docs, ResolvedKey[unique_docs[i]])
                         < FirstIndexOfKey(all_docs, ResolvedKey[unique_docs[j]])

C5_Witness ==
    /\ DedupDone
    /\ all_docs = <<5, 1, 6, 2>>
    /\ unique_docs = <<5, 1>>

(***************************************************************************)
(* C6.  When the query yields a candidate name token, the first candidate  *)
(* is the primary subject, and the relevance filter retains, in input      *)
(* order, exactly the chunks whose text or title contains that token as a  *)
(* case-insensitive substring.                                             *)
(***************************************************************************)
C6_NameFilter ==
    (FilterDone /\ FirstCandidate[query] # <<>>) =>
        relevant_docs =
            SelectSeq(final_docs_limited, LAMBDA d : HasFirstCandidate[<<query, d>>])

C6_Witness ==
    /\ FilterDone
    /\ query = QueryLower
    /\ final_docs_limited = <<3, 4, 1>>
    /\ relevant_docs = <<4, 1>>

(***************************************************************************)
(* C7.  Whenever the relevance filter runs for a query with a primary name *)
(* that none of its input chunks contains, the call ends at once with the  *)
(* "no documents containing information about '<name>'" message: no LLM    *)
(* call, no evaluator call, and no fallback to the unfiltered or the       *)
(* word-overlap-filtered chunks.                                           *)
(***************************************************************************)
C7_EarlyTermination ==
    ( /\ FilterDone
      /\ FirstCandidate[query] # <<>>
      /\ \A i \in DOMAIN final_docs_limited :
            ~HasFirstCandidate[<<query, final_docs_limited[i]>>] ) =>
        /\ pc = "done"
        /\ result = [kind |-> "no_name_match", name |-> Lower(FirstCandidate[query])]
        /\ relevant_docs = <<>>
        /\ llm_calls = 0
        /\ eval_calls = 0

\* chunk 4 shares the word "me" with the query but does not mention "tell"
C7_Witness ==
    /\ pc = "done"
    /\ query = QueryTell
    /\ final_docs_limited = <<4, 1>>
    /\ result.kind = "no_name_match"

(***************************************************************************)
(* C8.  When the query yields no candidate name token, the relevance       *)
(* filter keeps exactly the chunks that share a token off the stop list    *)
(* with the query; a chunk sharing only stop-list words is not kept.       *)
(***************************************************************************)
SharesNonStopWord ==
    Tabulate([qd \in Queries \X CorpusIds |->
        ((Range(Split(Lower(qd[1]))) \ StopList)
            \cap Range(Split(Lower(Corpus[qd[2]].page_content)))) # {}])

C8_NonStopwordOverlap ==
    (FilterDone /\ FirstCandidate[query] = <<>>) =>
        relevant_docs =
            SelectSeq(final_docs_limited, LAMBDA d : SharesNonStopWord[<<query, d>>])

(***************************************************************************)
(* C9.  The budgeted chunks are a prefix of the budgeter's input whose     *)
(* total length is at most 2 x max_context_length, and the prefix ends     *)
(* only at the first chunk that would exceed that: no later chunk is       *)
(* included after a rejection, however small.                              *)
(***************************************************************************)
C9_ContextBudget ==
    BudgetDone =>
        /\ IsPrefix(final_docs_limited, unique_docs)
        /\ TotalLength(final_docs_limited) <= 2 * max_context_length
        /\ total_chars = TotalLength(final_docs_limited)
        /\ Len(final_docs_limited) < Len(unique_docs) =>
              TotalLength(SubSeq(unique_docs, 1, Len(final_docs_limited) + 1))
                  > 2 * max_context_length

\* budget 90: chunk 3 (60) is kept, chunk 4 (60) rejected, chunk 2 (25) would fit
C9_Witness ==
    /\ BudgetDone
    /\ max_context_length = 45
    /\ unique_docs = <<3, 4, 2>>
    /\ final_docs_limited = <<3>>

(***************************************************************************)
(* C10.  For max_context_length = 100 and three chunks of lengths 60, 60,  *)
(* 60 the budgeter does not retain all three: the third is dropped.        *)
(***************************************************************************)
ThreeSixties ==
    /\ Len(unique_docs) = 3
    /\ \A i \in 1..3 : Len(Corpus[unique_docs[i]].page_content) = 60

C10_ThirdChunkDropped ==
    (BudgetDone /\ max_context_length = 100 /\ ThreeSixties) =>
        final_docs_limited = SubSeq(unique_docs, 1, 2)

\* C10 as amended: all three chunks are retained, their cumulative length 180
\* not exceeding the boundary 200.
C10_AllThreeRetained ==
    (BudgetDone /\ max_context_length = 100 /\ ThreeSixties) =>
        /\ final_docs_limited = unique_docs
        /\ total_chars = 180

C10_Witness ==
    /\ BudgetDone
    /\ max_context_length = 100
    /\ ThreeSixties
    /\ Len(final_docs_limited) = 3

(***************************************************************************)
(* Claim-side views of the answer, the notes and the evaluation            *)
(***************************************************************************)
\* the LLM was asked and gave no answer
LLMCallFailed == llm_calls = 1 /\ response_text = <<>>

\* the LLM was asked and gave an answer
LLMAnswered == llm_calls = 1 /\ response_text # <<>>

\* the call has ended with an exception instead of a string
ExceptionEscaped == pc = "done" /\ result.kind \in {"raised", "filter_raised"}

\* the auditor has run to its end and built the response
Composed ==
    /\ LLMAnswered
    /\ \/ pc \in {"evaluate", "yield"}
       \/ pc = "done" /\ result.kind \in {"answered", "answered_evaluation_failed"}

\* chunk d has a title that is a non-empty string found in the answer a,
\* ignoring case
NamesTitle(d, a) ==
    /\ "title" \in DOMAIN Corpus[d].metadata
    /\ Corpus[d].metadata.title \notin {None, <<>>}
    /\ Contains(Lower(a), Lower(Corpus[d].metadata.title))

AnswerNamesTitle ==
    Tabulate([da \in CorpusIds \X Answers |-> NamesTitle(da[1], da[2])])

\* the words of chunk d of more than three characters that are no common
\* words, in lower case
MeaningfulWords(d) ==
    {Lower(w) : w \in {v \in Range(Split(Corpus[d].page_content)) :
                          Len(v) > 3 /\ Lower(v) \notin CommonWords}}

MeaningfulWordsOf == Tabulate([d \in CorpusIds |-> MeaningfulWords(d)])

AnswerWordsOf == Tabulate([a \in Answers |-> Range(Split(Lower(a)))])

\* how many meaningful words of the context chunks occur among the words of
\* the answer
SharedMeaningfulWords ==
    Cardinality((UNION {MeaningfulWordsOf[final_docs[i]] : i \in DOMAIN final_docs})
                    \cap AnswerWordsOf[response_text])

\* the reply is a raise, or a text whose first character after stripping is
\* no digit
RatingFails(reply) ==
    \/ reply.raises
    \/ Strip(reply.text) = <<>>
    \/ Strip(reply.text)[1] \notin DigitChars

\* str(e) of the exception a failing reply leads to
CauseOf(reply) ==
    IF reply.raises THEN reply.text
    ELSE IF Strip(reply.text) = <<>> THEN IndexErrorText
    ELSE InvalidLiteralHead \o <<Strip(reply.text)[1], "'">>

(***************************************************************************)
(* C11.  No failure is fatal: whatever the searches, the construction of   *)
(* the LLM client, the LLM call and the evaluator do, and whatever the     *)
(* metadata of the chunks (a title that is None included), query_llm       *)
(* returns a string and no exception leaves it.                            *)
(***************************************************************************)
C11_NoFailureIsFatal == ~ExceptionEscaped

(***************************************************************************)
(* C12.  When the LLM answer call fails, query_llm returns the string      *)
(* "Error: <cause>" instead of raising, and query_llm_stream yields that   *)
(* one string and ends.                                                    *)
(***************************************************************************)
C12_LLMFailureIsErrorString ==
    LLMCallFailed =>
        /\ pc = "done"
        /\ result.kind = "llm_error"
        /\ \E cause \in LLMFailures : response = ErrorPrefix \o cause
        /\ IF streaming
           THEN yield_count = 1 /\ last_yield = response
           ELSE yield_count = 0

C12_Witness ==
    /\ LLMCallFailed
    /\ streaming
    /\ pc = "done"
    /\ yield_count = 1
    /\ last_yield = ErrorPrefix \o OverloadedError

(***************************************************************************)
(* C13.  The auditor never alters or suppresses the answer: whenever the   *)
(* LLM answer call has succeeded, the returned response holds the raw      *)
(* answer, unchanged, right after the "Answer:" header, whatever notes are *)
(* appended and whether or not the evaluator succeeds.                     *)
(***************************************************************************)
C13_AnswerVerbatim ==
    (pc = "done" /\ LLMAnswered) =>
        IsPrefix(AnswerHeader \o response_text, response)

\* the same for the calls whose context chunks all have a title that is a
\* string, or none
C13_AnswerVerbatimForTextTitles ==
    (pc = "done" /\ LLMAnswered /\ ~AuditRaises(final_docs)) =>
        IsPrefix(AnswerHeader \o response_text, response)

C15_EvaluatorFailsClosed ==
    (pc = "done" /\ ratings # <<>> /\ RatingFails(ratings[Len(ratings)])) =>
        /\ DictGet(evaluation, KeyError, NullV)
              = StrV(CauseOf(ratings[Len(ratings)]))
        /\ ~HasKey(evaluation, KeyRelevance)
        /\ ~HasKey(evaluation, KeyOverall)
        /\ result.kind = "answered"
        /\ IsPrefix(AnswerHeader \o response_text, response)
        /\ Contains(response, SourcesHeader \o Sources(final_docs))

\* the relevance rating was read, the completeness rating was a letter
C15_Witness ==
    /\ pc = "done"
    /\ result.kind = "answered"
    /\ Len(ratings) = 2
    /\ ratings[2] = [raises |-> FALSE, text |-> <<"x">>]
    /\ HasKey(evaluation, KeyError)

\* a mapping without its timestamp field
WithoutTimestamp(v) ==
    IF "dict" \in DOMAIN v
    THEN DictV(SelectSeq(v.dict, LAMBDA p : p[1] # KeyTimestamp))
    ELSE v

\* the call on the success path: the LLM has answered and the auditor has
\* built the response
StreamSucceeds ==
    streaming /\ result.kind \in {"answered", "answered_evaluation_failed"}

(***************************************************************************)
(* C16.  Whenever evaluate_qa_response returns scores, relevance_score and *)
(* completeness_score are integers in 0..5 and overall_score, their        *)
(* average, is in 0..5, for every text the rating LLM may return.          *)
(***************************************************************************)
C16_ScoresInRange ==
    (pc = "done" /\ HasKey(evaluation, KeyRelevance)) =>
        /\ DictGet(evaluation, KeyRelevance, NullV) \in {IntV(n) : n \in 0..5}
        /\ DictGet(evaluation, KeyCompleteness, NullV) \in {IntV(n) : n \in 0..5}
        /\ DictGet(evaluation, KeyOverall, NullV) \in {FloatV(h) : h \in 0..500}

(***************************************************************************)
(* C17.  The evaluator has a lexical strategy that asks no LLM: for the    *)
(* query "apple banana" and the answer "I like apple and banana" it        *)
(* returns a relevance score of exactly 5 and makes no LLM call.           *)
(***************************************************************************)
C17_LexicalRelevance ==
    (pc = "done" /\ query = QueryFruit /\ response_text = AnswerFruit) =>
        /\ ratings = <<>>
        /\ DictGet(evaluation, KeyRelevance, NullV) = IntV(5)

(***************************************************************************)
(* C18.  Round trip: after save_evaluation_results has written a mapping,  *)
(* reading the JSON file it wrote gives a mapping equal to the saved one,  *)
(* the timestamp field left aside.                                         *)
(***************************************************************************)
C18_SaveRoundTrip ==
    saved # <<>> =>
        LET last == saved[Len(saved)]
        IN WithoutTimestamp(JsonLoads(files[last.filename]))
              = WithoutTimestamp(last.results)

\* the mapping saved last holds a query with a double quote, a new line and
\* a backslash, and the file holds them escaped
C18_Witness ==
    /\ Len(saved) = 2
    /\ DictGet(saved[2].results.dict, KeyQuery, NullV) = StrV(AnswerQuoted)
    /\ Contains(files[saved[2].filename], <<"\\", "\"">>)
    /\ Contains(files[saved[2].filename], <<"\\", "n">>)
    /\ Contains(files[saved[2].filename], <<"\\", "\\">>)

(***************************************************************************)
(* C19.  The evaluation log is append-only: after any sequence of saves    *)
(* every record an earlier save wrote can still be read; a later save,     *)
(* with the same explicit file name or within the same second included,    *)
(* never overwrites or loses an earlier record.                            *)
(***************************************************************************)
C19_EarlierRecordsReadable ==
    \A i \in DOMAIN saved :
        /\ saved[i].filename \in DOMAIN files
        /\ JsonLoads(files[saved[i].filename]) = saved[i].results

SameSearch(i, j) ==
    /\ calls[i].search_type = calls[j].search_type
    /\ calls[i].k = calls[j].k

\* the first 100 characters of the text of each chunk
TextKey == Tabulate([d \in CorpusIds |-> Take(Corpus[d].page_content, 100)])

(***************************************************************************)
(* C21.  No retries: within one call of query_llm a failed search is       *)
(* final, no search with the same search type and parameters is issued     *)
(* after it has failed, and the answering LLM is called at most once.      *)
(***************************************************************************)
C21_NoRetries ==
    /\ \A i, j \in DOMAIN calls :
          (i < j /\ ~calls[i].ok) => ~SameSearch(i, j)
    /\ llm_calls <= 1

(***************************************************************************)
(* C25.  Deduplication removes only repeats: every retrieved chunk whose   *)
(* first 100 characters differ from those of all chunks retained before it *)
(* is in the deduplicated list; two chunks of one Drive file with          *)
(* different texts are both retained.                                      *)
(***************************************************************************)
C25_OnlyRepeatsRemoved ==
    DedupDone =>
        \A i \in DOMAIN all_docs :
            (\A j \in 1..(i - 1) :
                all_docs[j] \in Range(unique_docs)
                    => TextKey[all_docs[j]] # TextKey[all_docs[i]])
            => all_docs[i] \in Range(unique_docs)

(***************************************************************************)
(* C26.  The primary subject of the name filter is never a word of the     *)
(* stop list (tell, me, about, what, who, where, when, how, why), not even *)
(* when such a word begins the query with a capital letter.                *)
(***************************************************************************)
C26_PrimaryNameNotStopWord ==
    (StrategiesDone /\ PotentialNamesOf[query] # <<>>) =>
        PrimaryNameOf[query] \notin StopList

(***************************************************************************)
(* C27.  When the deduplicated list is not empty, at least one chunk       *)
(* reaches the relevance filter: the budgeter gives no empty list for a    *)
(* non-empty input, also when the first chunk is longer than               *)
(* 2 x max_context_length.                                                 *)
(***************************************************************************)
C27_BudgetKeepsAChunk ==
    (BudgetDone /\ unique_docs # <<>>) => final_docs_limited # <<>>

\* what query_llm returns on the path the call has taken, from the outcomes
\* of its searches, of the LLM and of the evaluator
ReturnedString ==
    LET answered == AnswerHeader \o response_text \o context_validation
                        \o SourcesHeader \o Sources(final_docs)
    IN CASE result.kind = "retrieval_error" -> MsgRetrievalError
         [] result.kind = "no_documents" -> MsgNoDocuments
         [] result.kind = "no_name_match" ->
                MsgNoNameHead \o PrimaryNameOf[query] \o MsgNoNameTail
         [] result.kind = "no_relevant" -> MsgNoRelevant
         [] result.kind = "llm_error" -> ErrorPrefix \o OverloadedError
         [] result.kind = "audit_error" -> ErrorPrefix \o NoneTypeLower
         [] result.kind = "answered" ->
                answered \o (IF eval_calls = 1 THEN EvalInfo(evaluation) ELSE <<>>)
         [] result.kind = "answered_evaluation_failed" ->
                answered \o EvaluationFailedNote
         [] OTHER -> <<>>

\* the call has ended with a string
StringReturned == pc = "done" /\ ~ExceptionEscaped

EnteredId(c) == Strip(chat_history[c][2].content)

\* the content of the last message of the chat of c
LastContent(c) == chat_history[c][Len(chat_history[c])].content

\* the handler of conversation c takes the step
Steps(c) == turn'[c] # turn[c]

\* the handler of c is in the login branch and has not loaded an index yet
BeforeLoaded(c) == turn[c].pc \in {"login", "load_existing", "load_new"}

\* the handler of c is in the query branch
InQueryBranch(c) == turn[c].pc \in {"query", "answer"}

\* the last message of c reports a debug: or test: identifier
ReportsDebugOrTest(c) ==
    \/ StartsWith(LastContent(c), DebugHead)
    \/ StartsWith(LastContent(c), TestHead)

(***************************************************************************)
(* C22.  Users are isolated by their session key: in every interleaving    *)
(* of the turns of two conversations that entered different identifiers,   *)
(* the first turn of each conversation is taken as its identifier, and     *)
(* every later query turn is answered from the index stored under the      *)
(* identifier that conversation entered, never from that of another user.  *)
(***************************************************************************)
C22_AnsweredFromOwnIndex ==
    \A c \in Conversations :
        /\ turn[c].number = 1 => ~InQueryBranch(c)
        /\ turn[c].pc = "answer" => turn[c].user_id = EnteredId(c)

(***************************************************************************)
(* C23.  One index handle per user, loaded once and reused: no step of a   *)
(* query turn loads or builds an index or changes the session map, and     *)
(* the handle a query turn uses is the one the session map holds for the   *)
(* logged-in user, put there by a login.                                   *)
(***************************************************************************)
C23_HandleReused ==
    [][\A c \in Conversations :
          (InQueryBranch(c) /\ Steps(c)) =>
              /\ loads' = loads
              /\ index_files' = index_files
              /\ sessions' = sessions
              /\ turn'[c].pc = "answer" =>
                    /\ user_state.user_id \in DOMAIN sessions
                    /\ turn'[c].vectorstore
                          = sessions[user_state.user_id].vectorstore
                    /\ turn'[c].vectorstore \in 1..loads]_vars

\* the second turn of a conversation is answered from the one index loaded
C23_Witness ==
    \E c \in Conversations :
        /\ turn[c].pc = "answer"
        /\ turn[c].number = 2
        /\ loads = 1
        /\ turn[c].vectorstore = 1
        /\ turn[c].user_id = EnteredId(c)

(***************************************************************************)
(* C28.  In every reachable state, all interleavings of concurrent login   *)
(* turns included, user_state["logged_in"] implies that                    *)
(* user_state["user_id"] is a key of sessions with a vectorstore, so the   *)
(* lookup of the query branch never fails; and logged_in, once true, never *)
(* becomes false.                                                          *)
(***************************************************************************)
C28_LoggedInHasSession ==
    /\ [](user_state.logged_in =>
             /\ user_state.user_id \in DOMAIN sessions
             /\ "vectorstore" \in DOMAIN sessions[user_state.user_id])
    /\ [](\A c \in Conversations : turn[c].pc # "key_error")
    /\ [][user_state.logged_in => user_state'.logged_in]_vars

\* two logins run at once: the first has set logged_in while the second has
\* written its session and not yet its user id
C28_Witness ==
    /\ user_state.logged_in
    /\ user_state.user_id = UserA
    /\ turn[2].pc = "store_user_id"
    /\ DOMAIN sessions = {UserA, UserB}

(***************************************************************************)
(* C29.  A login turn that fails, and a login turn with a debug: or test:  *)
(* identifier, leave sessions and user_state unchanged: no session entry   *)
(* is added, logged_in stays false and the next turn is again taken as an  *)
(* identifier; the failure is reported as a "Login failed" message.        *)
(***************************************************************************)
C29_FailedLoginChangesNothing ==
    [][\A c \in Conversations :
          /\ (BeforeLoaded(c) /\ Steps(c)) =>
                /\ sessions' = sessions
                /\ user_state' = user_state
                /\ turn'[c].pc = "idle" =>
                      \/ StartsWith(LastContent(c)', LoginFailedPrefix)
                      \/ ReportsDebugOrTest(c)'
          /\ (turn[c].pc = "respond" /\ Steps(c) /\ ~user_state.logged_in) =>
                turn'[c].pc = "login"]_vars

\* the first turn of a conversation has failed, nobody is logged in, and the
\* second turn is taken as an identifier
C29_Witness ==
    \E c \in Conversations :
        /\ turn[c].pc = "login"
        /\ turn[c].number = 2
        /\ \E i \in DOMAIN chat_history[c] :
              StartsWith(chat_history[c][i].content, LoginFailedPrefix)
        /\ sessions = <<>>
        /\ user_state = [logged_in |-> FALSE, user_id |-> None]

(***************************************************************************)
(* C30.  After a turn has run to its end, the chat no longer holds the     *)
(* "Processing your request..." placeholder display_user_message added    *)
(* for it, for login turns and for query turns.                            *)
(***************************************************************************)
C30_PlaceholderRemoved ==
    \A c \in Conversations :
        (turn[c].pc = "idle" /\ turn[c].number >= 1) =>
            \A i \in DOMAIN chat_history[c] :
                chat_history[c][i].content # ProcessingText

====
